---- MODULE Spec2Model ----
(***************************************************************************)
(* A model of the STE template engine of LiteNode (src/core/STE): the      *)
(* recursive-descent parser, the asynchronous tree-walking evaluator and   *)
(* the engine facade (render, include stack, path resolution, raw-HTML     *)
(* markers).                                                               *)
(*                                                                         *)
(* Strings are sequences of atoms: an atom is a character the code looks   *)
(* at ("/", "<", "&", ...) or a run of characters it never splits (a word, *)
(* a file name).  JavaScript values are tagged records.  Objects live in a *)
(* heap and are referred to by [k |-> "ref"] values, so that two holders   *)
(* of one object see each other's writes.                                  *)
(***************************************************************************)
EXTENDS Integers, Sequences, FiniteSets, TLC

(***************************************************************************)
(* JavaScript values                                                       *)
(***************************************************************************)
Undef == [k |-> "undef"]

Str(s) == [k |-> "str", s |-> s]

Num(n) == [k |-> "num", n |-> n]

Bool(b) == [k |-> "bool", b |-> b]

Arr(a) == [k |-> "arr", a |-> a]

Ref(i) == [k |-> "ref", id |-> i]

EmptyStr == Str(<<>>)

\* the decimal digits of a small natural number, as atoms
Digits(n) == IF n < 10 THEN <<ToString(n)>> ELSE <<ToString(n \div 10), ToString(n % 10)>>

\* String(v), the conversion `result += v` and Array.prototype.join apply
RECURSIVE JsToString(_)
JsToString(v) ==
  CASE v.k = "str" -> v.s
    [] v.k = "num" -> Digits(v.n)
    [] v.k = "bool" -> IF v.b THEN <<"true">> ELSE <<"false">>
    [] v.k = "undef" -> <<"undefined">>
    [] v.k = "nan" -> <<"NaN">>
    [] v.k = "arr" -> IF v.a = <<>> THEN <<>>
                      ELSE (IF v.a[1].k = "undef" THEN <<>> ELSE JsToString(v.a[1]))
                           \o (IF Len(v.a) = 1 THEN <<>> ELSE <<",">> \o JsToString([v EXCEPT !.a = Tail(@)]))
    [] OTHER -> <<"[object Object]">>

\* ToBoolean(v)
Truthy(v) ==
  CASE v.k = "str" -> v.s # <<>>
    [] v.k = "num" -> v.n # 0
    [] v.k = "bool" -> v.b
    [] v.k \in {"undef", "nan"} -> FALSE
    [] OTHER -> TRUE

(***************************************************************************)
(* Tokens and parser results.  A token is [type, lexeme, literal]; lexemes *)
(* and string literals are atom sequences, tag literals are tag names.     *)
(* The parser's position `current` is 1-based here.  ParserState's three   *)
(* flags travel in fl = [inc, setv, obj].                                  *)
(***************************************************************************)
Nil == [type |-> "none"]

POk(node, p, fl) == [ok |-> TRUE, node |-> node, pos |-> p, fl |-> fl, err |-> ""]

PErr(msg, p, fl) == [ok |-> FALSE, node |-> Nil, pos |-> p, fl |-> fl, err |-> msg]

ParserState == [inc |-> FALSE, setv |-> FALSE, obj |-> FALSE]

isAtEnd(ts, p) == ts[p].type = "EOF"

check(ts, p, type) == IF isAtEnd(ts, p) THEN FALSE ELSE ts[p].type = type

\* match(...types) succeeds iff one of the types is the current token's
checkAny(ts, p, types) == IF isAtEnd(ts, p) THEN FALSE ELSE ts[p].type \in types

\* String.prototype.includes(".")
ContainsDot(s) == \E i \in 1..Len(s) : s[i] = "."

\* Map.prototype.set on an ordered list of [key, value] pairs
MapSet(m, key, value) ==
  IF \E i \in 1..Len(m) : m[i].key = key
    THEN [i \in 1..Len(m) |-> IF m[i].key = key THEN [key |-> key, value |-> value] ELSE m[i]]
    ELSE Append(m, [key |-> key, value |-> value])

\* `const r = <call>`, then the code that follows with r in hand, written
\* [r \in {<call>} |-> <code>]
Bind(f) == f[CHOOSE r \in DOMAIN f : TRUE]

\* A method called on the Parser: its own parseStatement, or parseExpression of
\* the ExpressionParser it holds, which shares the Parser's state.
RECURSIVE Parser(_, _, _, _)
RECURSIVE ternary(_, _, _)
RECURSIVE logical(_, _, _)
RECURSIVE logicalLoop(_, _)
RECURSIVE comparison(_, _, _)
RECURSIVE comparisonLoop(_, _)
RECURSIVE addition(_, _, _)
RECURSIVE additionLoop(_, _)
RECURSIVE multiplication(_, _, _)
RECURSIVE multiplicationLoop(_, _)
RECURSIVE unary(_, _, _)
RECURSIVE primary(_, _, _)
RECURSIVE identifierChain(_, _)
RECURSIVE array(_, _, _)
RECURSIVE arrayLoop(_, _, _, _)
RECURSIVE object(_, _, _)
RECURSIVE objectLoop(_, _, _, _)
RECURSIVE parseFilter(_, _, _, _)
RECURSIVE filterArgs(_, _, _, _)

parseExpression(ts, p, fl) == ternary(ts, p, fl)

ternary(ts, p, fl) ==
  Bind([c \in {logical(ts, p, fl)} |->
    IF ~c.ok THEN c
    ELSE IF ~check(ts, c.pos, "QUESTION") THEN c
    ELSE Bind([t \in {Parser("parseExpression", ts, c.pos + 1, c.fl)} |->
      IF ~t.ok THEN t
      ELSE IF ~check(ts, t.pos, "COLON")
        THEN PErr("Expect ':' after true branch in ternary operator.", t.pos, t.fl)
      ELSE Bind([f \in {ternary(ts, t.pos + 1, t.fl)} |->
        IF ~f.ok THEN f
        ELSE POk([type |-> "ternary", condition |-> c.node, trueExpr |-> t.node,
                  falseExpr |-> f.node], f.pos, f.fl)])])])

\* a loop of logical that takes everything after the operator as its right
\* operand
logicalLoopRight(ts, e) ==
  IF ~checkAny(ts, e.pos, {"AND", "OR"}) THEN e
  ELSE Bind([r \in {logical(ts, e.pos + 1, e.fl)} |->
    IF ~r.ok THEN r
    ELSE POk([type |-> "logical", operator |-> ts[e.pos].type,
              left |-> e.node, right |-> r.node], r.pos, r.fl)])

logicalLoop(ts, e) ==
  IF ~checkAny(ts, e.pos, {"AND", "OR"}) THEN e
  ELSE Bind([r \in {comparison(ts, e.pos + 1, e.fl)} |->
    IF ~r.ok THEN r
    ELSE logicalLoop(ts, POk([type |-> "logical", operator |-> ts[e.pos].type,
                              left |-> e.node, right |-> r.node], r.pos, r.fl))])

logical(ts, p, fl) ==
  Bind([e \in {comparison(ts, p, fl)} |-> IF ~e.ok THEN e ELSE logicalLoop(ts, e)])

comparisonLoop(ts, e) ==
  IF ~checkAny(ts, e.pos, {"GREATER", "GREATER_EQUAL", "LESS", "LESS_EQUAL", "EQUAL",
                           "NOT_EQUAL", "STRICT_EQUAL", "STRICT_NOT_EQUAL"}) THEN e
  ELSE Bind([r \in {addition(ts, e.pos + 1, e.fl)} |->
    IF ~r.ok THEN r
    ELSE comparisonLoop(ts, POk([type |-> "comparison", operator |-> ts[e.pos].type,
                                 left |-> e.node, right |-> r.node], r.pos, r.fl))])

comparison(ts, p, fl) ==
  Bind([e \in {addition(ts, p, fl)} |-> IF ~e.ok THEN e ELSE comparisonLoop(ts, e)])

additionLoop(ts, e) ==
  IF ~checkAny(ts, e.pos, {"PLUS", "MINUS"}) THEN e
  ELSE Bind([r \in {multiplication(ts, e.pos + 1, e.fl)} |->
    IF ~r.ok THEN r
    ELSE additionLoop(ts, POk([type |-> "binary", operator |-> ts[e.pos].type,
                               left |-> e.node, right |-> r.node], r.pos, r.fl))])

addition(ts, p, fl) ==
  Bind([e \in {multiplication(ts, p, fl)} |-> IF ~e.ok THEN e ELSE additionLoop(ts, e)])

multiplicationLoop(ts, e) ==
  IF ~checkAny(ts, e.pos, {"MULTIPLY", "DIVIDE", "MODULO", "POWER"}) THEN e
  ELSE Bind([r \in {unary(ts, e.pos + 1, e.fl)} |->
    IF ~r.ok THEN r
    ELSE multiplicationLoop(ts, POk([type |-> "binary", operator |-> ts[e.pos].type,
                                     left |-> e.node, right |-> r.node], r.pos, r.fl))])

multiplication(ts, p, fl) ==
  Bind([e \in {unary(ts, p, fl)} |-> IF ~e.ok THEN e ELSE multiplicationLoop(ts, e)])

unary(ts, p, fl) ==
  IF checkAny(ts, p, {"MINUS", "NOT"})
    THEN Bind([r \in {unary(ts, p + 1, fl)} |->
           IF ~r.ok THEN r
           ELSE POk([type |-> "unary", operator |-> ts[p].type, right |-> r.node], r.pos, r.fl)])
    ELSE primary(ts, p, fl)

\* the while loop of primary that follows an IDENTIFIER: .prop and [computed]
identifierChain(ts, e) ==
  IF check(ts, e.pos, "DOT")
    THEN IF ~check(ts, e.pos + 1, "IDENTIFIER")
           THEN PErr("Expect property name after '.'", e.pos + 1, e.fl)
           ELSE identifierChain(ts, POk([type |-> "property", object |-> e.node,
                                         property |-> ts[e.pos + 1].lexeme], e.pos + 2, e.fl))
  ELSE IF check(ts, e.pos, "LBRACKET")
    THEN Bind([index \in {IF check(ts, e.pos + 1, "STRING")
                THEN POk([type |-> "literal", value |-> Str(ts[e.pos + 1].literal)],
                         e.pos + 2, e.fl)
                ELSE Parser("parseExpression", ts, e.pos + 1, e.fl)} |->
           IF ~index.ok THEN index
           ELSE IF ~check(ts, index.pos, "RBRACKET")
             THEN PErr("Expect ']' after property access", index.pos, index.fl)
           ELSE identifierChain(ts, POk([type |-> "computed_property", object |-> e.node,
                                         property |-> index.node], index.pos + 1, index.fl))])
  ELSE e

primary(ts, p, fl) ==
  IF check(ts, p, "STRING") THEN
    LET value == Str(ts[p].literal)
        lexeme == ts[p].lexeme
        wasQuoted == lexeme # <<>> /\ lexeme[1] \in {"\"", "'"}
        lit == POk([type |-> "literal", value |-> value], p + 1, fl)
    IN IF check(ts, p + 1, "PIPE_FILTER")
         THEN parseFilter(ts, p + 2, fl, [type |-> "literal", value |-> value])
       ELSE IF wasQuoted /\ fl.setv THEN lit
       ELSE IF wasQuoted /\ fl.obj THEN lit
       ELSE IF wasQuoted /\ ~fl.inc /\ ContainsDot(value.s)
         THEN POk([type |-> "variable", name |-> value.s], p + 1, fl)
       ELSE lit
  ELSE IF check(ts, p, "NUMBER")
    THEN POk([type |-> "literal", value |-> Num(ts[p].literal)], p + 1, fl)
  ELSE IF check(ts, p, "TRUE") THEN POk([type |-> "literal", value |-> Bool(TRUE)], p + 1, fl)
  ELSE IF check(ts, p, "FALSE") THEN POk([type |-> "literal", value |-> Bool(FALSE)], p + 1, fl)
  ELSE IF check(ts, p, "LBRACKET") THEN array(ts, p + 1, fl)
  ELSE IF check(ts, p, "LBRACE") THEN object(ts, p + 1, fl)
  ELSE IF check(ts, p, "LPAREN")
    THEN Bind([e \in {Parser("parseExpression", ts, p + 1, fl)} |->
           IF ~e.ok THEN e
           ELSE IF ~check(ts, e.pos, "RPAREN") THEN PErr("Expect ')' after expression.", e.pos, e.fl)
           ELSE POk([type |-> "grouping", expression |-> e.node], e.pos + 1, e.fl)])
  ELSE IF check(ts, p, "RAW_HTML")
    THEN POk([type |-> "raw_html", name |-> ts[p].lexeme], p + 1, fl)
  ELSE IF check(ts, p, "IDENTIFIER")
    THEN Bind([e \in {identifierChain(ts, POk([type |-> "variable", name |-> ts[p].lexeme], p + 1, fl))} |->
           IF ~e.ok THEN e
           ELSE IF check(ts, e.pos, "PIPE_FILTER") THEN parseFilter(ts, e.pos + 1, e.fl, e.node)
           ELSE e])
  ELSE PErr("Unexpected token", p, fl)

\* do { elements.push(parseExpression()) } while (match(COMMA))
arrayLoop(ts, p, fl, elements) ==
  Bind([e \in {Parser("parseExpression", ts, p, fl)} |->
    IF ~e.ok THEN e
    ELSE IF check(ts, e.pos, "COMMA") THEN arrayLoop(ts, e.pos + 1, e.fl, Append(elements, e.node))
    ELSE POk(Append(elements, e.node), e.pos, e.fl)])

array(ts, p, fl) ==
  Bind([els \in {IF check(ts, p, "RBRACKET") THEN POk(<<>>, p, fl) ELSE arrayLoop(ts, p, fl, <<>>)} |->
    IF ~els.ok THEN els
    ELSE IF ~check(ts, els.pos, "RBRACKET") THEN PErr("Expect ']' after array elements.", els.pos, els.fl)
    ELSE POk([type |-> "array", elements |-> els.node], els.pos + 1, els.fl)])

objectLoop(ts, p, fl, properties) ==
  IF ~checkAny(ts, p, {"STRING", "IDENTIFIER"}) THEN PErr("Expect property name", p, fl)
  ELSE LET key == IF check(ts, p, "STRING") THEN ts[p].literal ELSE ts[p].lexeme IN
       IF ~check(ts, p + 1, "COLON") THEN PErr("Expect ':' after property name", p + 1, fl)
       ELSE Bind([v \in {Parser("parseExpression", ts, p + 2, fl)} |->
              IF ~v.ok THEN v
              ELSE IF check(ts, v.pos, "COMMA")
                THEN objectLoop(ts, v.pos + 1, v.fl, MapSet(properties, key, v.node))
              ELSE POk(MapSet(properties, key, v.node), v.pos, v.fl)])

object(ts, p, fl) ==
  LET in == [fl EXCEPT !.obj = TRUE] IN
  Bind([props \in {IF check(ts, p, "RBRACE") THEN POk(<<>>, p, in) ELSE objectLoop(ts, p, in, <<>>)} |->
    IF ~props.ok THEN props
    ELSE LET out == [props.fl EXCEPT !.obj = FALSE] IN
         IF ~check(ts, props.pos, "RBRACE") THEN PErr("Expect '}' after object literal", props.pos, out)
         ELSE POk([type |-> "object", properties |-> props.node], props.pos + 1, out)])

\* the do-while of parseFilter that collects the arguments
filterArgs(ts, p, fl, args) ==
  Bind([a \in {IF check(ts, p, "STRING")
         THEN POk([type |-> "literal", value |-> Str(ts[p].literal)], p + 1, fl)
         ELSE Parser("parseExpression", ts, p, fl)} |->
    IF ~a.ok THEN a
    ELSE IF check(ts, a.pos, "COMMA") THEN filterArgs(ts, a.pos + 1, a.fl, Append(args, a.node))
    ELSE POk(Append(args, a.node), a.pos, a.fl)])

parseFilter(ts, p, fl, expression) ==
  IF ~check(ts, p, "IDENTIFIER") THEN PErr("Expect filter name after '|'", p, fl)
  ELSE Bind([args \in {IF ~check(ts, p + 1, "LPAREN") THEN POk(<<>>, p + 1, fl)
            ELSE Bind([as \in {IF check(ts, p + 2, "RPAREN") THEN POk(<<>>, p + 2, fl)
                      ELSE filterArgs(ts, p + 2, fl, <<>>)} |->
                   IF ~as.ok THEN as
                   ELSE IF ~check(ts, as.pos, "RPAREN")
                     THEN PErr("Expect ')' after filter arguments", as.pos, as.fl)
                   ELSE POk(as.node, as.pos + 1, as.fl)])} |->
         IF ~args.ok THEN args
         ELSE LET filterNode == [type |-> "filter", expression |-> expression,
                                 filter |-> ts[p].lexeme, arguments |-> args.node] IN
              IF check(ts, args.pos, "PIPE_FILTER")
                THEN parseFilter(ts, args.pos + 1, args.fl, filterNode)
                ELSE POk(filterNode, args.pos, args.fl)])

(***************************************************************************)
(* StatementParser.  Each operator is entered where the code's method is,  *)
(* i.e. after the tag token has been consumed.                             *)
(***************************************************************************)
RECURSIVE parseSetChain(_, _, _, _)
RECURSIVE parseConditional(_, _, _)
RECURSIVE parseAlternates(_, _, _, _)
RECURSIVE parseConditionalBody(_, _, _, _)
RECURSIVE parseEach(_, _, _)
RECURSIVE parseEachBody(_, _, _, _, _)

\* the while loop of parseSet that builds the chain of property accesses
parseSetChain(ts, p, fl, chain) ==
  IF check(ts, p, "DOT")
    THEN IF ~check(ts, p + 1, "IDENTIFIER") THEN PErr("Expect property name after '.'", p + 1, fl)
         ELSE parseSetChain(ts, p + 2, fl,
                Append(chain, [type |-> "property",
                               property |-> [type |-> "literal", value |-> Str(ts[p + 1].lexeme)]]))
  ELSE IF check(ts, p, "LBRACKET")
    THEN Bind([property \in {Parser("parseExpression", ts, p + 1, fl)} |->
           IF ~property.ok THEN property
           ELSE IF ~check(ts, property.pos, "RBRACKET")
             THEN PErr("Expect ']' after property access", property.pos, property.fl)
           ELSE parseSetChain(ts, property.pos + 1, property.fl,
                  Append(chain, [type |-> "computed_property", property |-> property.node]))])
  ELSE POk(chain, p, fl)

parseSet(ts, p, fl) ==
  IF ~check(ts, p, "IDENTIFIER") THEN PErr("Expect variable name after #set", p, fl)
  ELSE Bind([chain \in {parseSetChain(ts, p + 1, fl, <<>>)} |->
    IF ~chain.ok THEN chain
    ELSE IF ~check(ts, chain.pos, "EQUAL")
      THEN PErr("Expect '=' after variable name in set", chain.pos, chain.fl)
    ELSE Bind([v \in {Parser("parseExpression", ts, chain.pos + 1, [chain.fl EXCEPT !.setv = TRUE])} |->
      IF ~v.ok THEN v
      ELSE LET fl2 == [v.fl EXCEPT !.setv = FALSE] IN
        Bind([value \in {IF check(ts, v.pos, "PIPE_FILTER")
               THEN parseFilter(ts, v.pos + 1, fl2, v.node)
               ELSE POk(v.node, v.pos, fl2)} |->
          IF ~value.ok THEN value
          ELSE IF ~check(ts, value.pos, "DOUBLE_BRACE_CLOSE")
            THEN PErr("Expect '}}' after set expression", value.pos, value.fl)
          ELSE POk([type |-> "set", name |-> ts[p].lexeme,
                    propertyChain |-> chain.node,  \* <<>> stands for null
                    value |-> value.node], value.pos + 1, value.fl)])])])

parseInclude(ts, p, fl) ==
  IF ~check(ts, p, "LPAREN") THEN PErr("Expect '(' after #include", p, fl)
  ELSE Bind([path \in {Parser("parseExpression", ts, p + 1, [fl EXCEPT !.inc = TRUE])} |->
    IF ~path.ok THEN path
    ELSE LET fl2 == [path.fl EXCEPT !.inc = FALSE] IN
         IF ~check(ts, path.pos, "RPAREN") THEN PErr("Expect ')' after include path", path.pos, fl2)
         ELSE IF ~check(ts, path.pos + 1, "DOUBLE_BRACE_CLOSE")
           THEN PErr("Expect '}}' after include expression", path.pos + 1, fl2)
         ELSE POk([type |-> "include", path |-> path.node], path.pos + 2, fl2)])

checkConditionalEnd(ts, p) ==
  IF ~check(ts, p, "DOUBLE_BRACE_OPEN") THEN FALSE
  ELSE \/ ts[p + 1].type = "TAG_CONDITIONAL_CLOSE"
       \/ (ts[p + 1].type = "TAG_CONDITIONAL" /\ ts[p + 1].literal \in {"elseif", "else"})

checkEachEnd(ts, p, eachType) ==
  IF ~check(ts, p, "DOUBLE_BRACE_OPEN") THEN FALSE
  ELSE ts[p + 1].type = "TAG_EACH_CLOSE" /\ ts[p + 1].literal = eachType

\* an expression statement that checks the '}}' without consuming it
parseExpressionStatementPeek(ts, p, fl) ==
  Bind([expr \in {Parser("parseExpression", ts, p, fl)} |->
    IF ~expr.ok THEN expr
    ELSE IF ~check(ts, expr.pos, "DOUBLE_BRACE_CLOSE")
      THEN PErr("Expect '}}' after expression.", expr.pos, expr.fl)
    ELSE POk([type |-> "expression", expression |-> expr.node], expr.pos, expr.fl)])

\* an expression statement: parseExpression, then '}}'
parseExpressionStatement(ts, p, fl) ==
  Bind([expr \in {Parser("parseExpression", ts, p, fl)} |->
    IF ~expr.ok THEN expr
    ELSE IF ~check(ts, expr.pos, "DOUBLE_BRACE_CLOSE")
      THEN PErr("Expect '}}' after expression.", expr.pos, expr.fl)
    ELSE POk([type |-> "expression", expression |-> expr.node], expr.pos + 1, expr.fl)])

\* The while loop of parseConditionalBody.  A token that is neither STRING
\* nor '{{' is consumed by no branch of the loop: the loop then spins on it.
parseConditionalBody(ts, p, fl, body) ==
  IF checkConditionalEnd(ts, p) THEN POk(body, p, fl)
  ELSE IF isAtEnd(ts, p) THEN PErr("Unterminated conditional statement", p, fl)
  ELSE IF check(ts, p, "STRING")
    THEN parseConditionalBody(ts, p + 1, fl,
           Append(body, [type |-> "literal", value |-> Str(ts[p].literal)]))
  ELSE IF check(ts, p, "DOUBLE_BRACE_OPEN")
    THEN LET q == p + 1 IN
         Bind([stmt \in {IF check(ts, q, "TAG_EACH") THEN parseEach(ts, q + 1, fl)
              ELSE IF check(ts, q, "TAG_SET") THEN parseSet(ts, q + 1, fl)
              ELSE IF check(ts, q, "TAG_INCLUDE") THEN parseInclude(ts, q + 1, fl)
              ELSE IF check(ts, q, "RAW_HTML")
                THEN IF ~check(ts, q + 1, "DOUBLE_BRACE_CLOSE")
                       THEN PErr("Expect '}}' after html variable", q + 1, fl)
                       ELSE POk([type |-> "raw_html", name |-> ts[q].literal], q + 2, fl)
              ELSE IF check(ts, q, "TAG_CONDITIONAL") /\ ts[q].literal \notin {"elseif", "else", "/if"}
                THEN parseConditional(ts, q + 1, fl)
              ELSE parseExpressionStatement(ts, q, fl)} |->
           IF ~stmt.ok THEN stmt
           ELSE parseConditionalBody(ts, stmt.pos, stmt.fl, Append(body, stmt.node))])
  ELSE PErr("<no progress>", p, fl)

\* The while loop of parseConditional that collects elseif / else branches.
parseAlternates(ts, p, fl, alternates) ==
  IF ~check(ts, p, "DOUBLE_BRACE_OPEN") THEN POk(alternates, p, fl)
  ELSE LET q == p + 1 IN
    IF ts[q].type = "TAG_CONDITIONAL_CLOSE"
      THEN IF ~check(ts, q + 1, "DOUBLE_BRACE_CLOSE")
             THEN PErr("Expect '}}' after closing tag", q + 1, fl)
             ELSE POk(alternates, q + 2, fl)
    ELSE IF check(ts, q, "TAG_CONDITIONAL")
      THEN IF ts[q].literal = "elseif"
             THEN Bind([c \in {Parser("parseExpression", ts, q + 1, fl)} |->
                    IF ~c.ok THEN c
                    ELSE IF ~check(ts, c.pos, "DOUBLE_BRACE_CLOSE")
                      THEN PErr("Expect '}}' after elseif condition.", c.pos, c.fl)
                    ELSE Bind([b \in {parseConditionalBody(ts, c.pos + 1, c.fl, <<>>)} |->
                           IF ~b.ok THEN b
                           ELSE parseAlternates(ts, b.pos, b.fl,
                                  Append(alternates, [type |-> "conditional", conditionType |-> "elseif",
                                                      condition |-> c.node, body |-> b.node]))])])
           ELSE IF ts[q].literal = "else"
             THEN IF ~check(ts, q + 1, "DOUBLE_BRACE_CLOSE")
                    THEN PErr("Expect '}}' after else.", q + 1, fl)
                  ELSE Bind([b \in {parseConditionalBody(ts, q + 2, fl, <<>>)} |->
                         IF ~b.ok THEN b
                         ELSE LET r == IF check(ts, b.pos, "DOUBLE_BRACE_OPEN") THEN b.pos + 1 ELSE b.pos
                                  alts == Append(alternates, [type |-> "conditional",
                                                              conditionType |-> "else", body |-> b.node])
                              IN IF ts[r].type # "TAG_CONDITIONAL_CLOSE"
                                   THEN PErr("Expected closing tag after else block", r, b.fl)
                                 ELSE IF ~check(ts, r + 1, "DOUBLE_BRACE_CLOSE")
                                   THEN PErr("Expect '}}' after closing tag", r + 1, b.fl)
                                 ELSE POk(alts, r + 2, b.fl)])
           ELSE parseAlternates(ts, q + 1, fl, alternates)
    ELSE parseAlternates(ts, q, fl, alternates)

parseConditional(ts, p, fl) ==
  LET startConditionType == ts[p - 1].literal IN
  IF startConditionType \notin {"if", "not"} THEN PErr("Unexpected conditional type", p, fl)
  ELSE Bind([c0 \in {Parser("parseExpression", ts, p, fl)} |->
    IF ~c0.ok THEN c0
    ELSE Bind([condition \in {IF check(ts, c0.pos, "PIPE_FILTER")
                THEN parseFilter(ts, c0.pos + 1, c0.fl, c0.node) ELSE c0} |->
      IF ~condition.ok THEN condition
      ELSE IF ~check(ts, condition.pos, "DOUBLE_BRACE_CLOSE")
        THEN PErr("Expect '}}' after condition.", condition.pos, condition.fl)
      ELSE Bind([body \in {parseConditionalBody(ts, condition.pos + 1, condition.fl, <<>>)} |->
        IF ~body.ok THEN body
        ELSE IF startConditionType = "not"
          THEN LET r == IF check(ts, body.pos, "DOUBLE_BRACE_OPEN") THEN body.pos + 1 ELSE body.pos IN
               IF ts[r].type = "TAG_CONDITIONAL_CLOSE" /\ ts[r].literal = "not"
                 THEN IF ~check(ts, r + 1, "DOUBLE_BRACE_CLOSE")
                        THEN PErr("Expect '}}' after closing not tag", r + 1, body.fl)
                        ELSE POk([type |-> "conditional", conditionType |-> "not",
                                  condition |-> condition.node, body |-> body.node], r + 2, body.fl)
                 ELSE PErr("Expected closing not tag", r, body.fl)
          ELSE Bind([alternates \in {parseAlternates(ts, body.pos, body.fl, <<>>)} |->
                 IF ~alternates.ok THEN alternates
                 ELSE POk([type |-> "conditional", conditionType |-> "if",
                           condition |-> condition.node, body |-> body.node,
                           alternates |-> alternates.node], alternates.pos, alternates.fl)])])])])

\* The while loop of parseEachBody and the three consumes that follow it.
parseEachBody(ts, p, fl, eachType, body) ==
  IF checkEachEnd(ts, p, eachType)
    THEN \* match('{{'), consume(TAG_EACH_CLOSE), consume('}}')
         IF ~check(ts, p + 2, "DOUBLE_BRACE_CLOSE")
           THEN PErr("Expect '}}' after closing each tag", p + 2, fl)
           ELSE POk(body, p + 3, fl)
  ELSE IF isAtEnd(ts, p) THEN PErr("Unterminated each loop", p, fl)
  ELSE IF check(ts, p, "STRING")
    THEN parseEachBody(ts, p + 1, fl, eachType,
           Append(body, [type |-> "literal", value |-> Str(ts[p].literal)]))
  ELSE IF check(ts, p, "DOUBLE_BRACE_OPEN")
    THEN LET q == p + 1 IN
         Bind([stmt \in {IF check(ts, q, "AT_INDEX")
                THEN IF ~check(ts, q + 1, "DOUBLE_BRACE_CLOSE")
                       THEN PErr("Expect '}}' after @index", q + 1, fl)
                       ELSE POk([type |-> "index_ref"], q + 2, fl)
              ELSE IF check(ts, q, "AT_KEY")
                THEN IF ~check(ts, q + 1, "DOUBLE_BRACE_CLOSE")
                       THEN PErr("Expect '}}' after @key", q + 1, fl)
                       ELSE POk([type |-> "key_ref"], q + 2, fl)
              ELSE IF check(ts, q, "THIS")
                THEN IF ~check(ts, q + 1, "DOUBLE_BRACE_CLOSE")
                       THEN PErr("Expect '}}' after this", q + 1, fl)
                       ELSE POk([type |-> "this_ref"], q + 2, fl)
              ELSE IF check(ts, q, "TAG_EACH") THEN parseEach(ts, q + 1, fl)
              ELSE parseExpressionStatement(ts, q, fl)} |->
           IF ~stmt.ok THEN stmt
           ELSE parseEachBody(ts, stmt.pos, stmt.fl, eachType, Append(body, stmt.node))])
  ELSE PErr("<no progress>", p, fl)

parseEach(ts, p, fl) ==
  LET eachType == ts[p - 1].literal IN
  Bind([iterableExpr \in {Parser("parseExpression", ts, p, fl)} |->
    IF ~iterableExpr.ok THEN iterableExpr
    ELSE IF ~check(ts, iterableExpr.pos, "DOUBLE_BRACE_CLOSE")
      THEN PErr("Expect '}}' after each expression.", iterableExpr.pos, iterableExpr.fl)
    ELSE Bind([body \in {parseEachBody(ts, iterableExpr.pos + 1, iterableExpr.fl, eachType, <<>>)} |->
      IF ~body.ok THEN body
      ELSE POk([type |-> "each", eachType |-> eachType, iterable |-> iterableExpr.node,
                body |-> body.node], body.pos, body.fl)])])

(***************************************************************************)
(* Parser.parse and Parser.parseStatement                                  *)
(***************************************************************************)

parseStatement(ts, p, fl) ==
  IF check(ts, p, "TAG_SET") THEN parseSet(ts, p + 1, fl)
  ELSE IF check(ts, p, "TAG_EACH") THEN parseEach(ts, p + 1, fl)
  ELSE IF check(ts, p, "TAG_INCLUDE") THEN parseInclude(ts, p + 1, fl)
  ELSE IF check(ts, p, "TAG_CONDITIONAL") THEN parseConditional(ts, p + 1, fl)
  ELSE IF ts[p].type = "TAG_CONDITIONAL_CLOSE"
    THEN IF ~check(ts, p + 1, "DOUBLE_BRACE_CLOSE")
           THEN PErr("Expect '}}' after closing tag", p + 1, fl)
           ELSE POk([type |-> "null"], p + 2, fl)
  ELSE parseExpressionStatement(ts, p, fl)

Parser(method, ts, p, fl) ==
  IF method = "parseStatement" THEN parseStatement(ts, p, fl) ELSE parseExpression(ts, p, fl)

RECURSIVE parseLoop(_, _, _, _)
\* the while loop of Parser.parse
parseLoop(ts, p, fl, statements) ==
  IF isAtEnd(ts, p) THEN POk([type |-> "template", body |-> statements], p, fl)
  ELSE IF check(ts, p, "STRING")
    THEN parseLoop(ts, p + 1, fl, Append(statements, [type |-> "literal", value |-> Str(ts[p].literal)]))
  ELSE IF check(ts, p, "RAW_HTML")
    THEN parseLoop(ts, p + 1, fl, Append(statements, [type |-> "raw_html", name |-> ts[p].literal]))
  ELSE IF check(ts, p, "DOUBLE_BRACE_OPEN")
    THEN Bind([stmt \in {Parser("parseStatement", ts, p + 1, fl)} |->
           IF ~stmt.ok THEN stmt
           ELSE parseLoop(ts, stmt.pos, stmt.fl, Append(statements, stmt.node))])
  ELSE PErr("Unexpected token", p, fl)

parse(ts) == parseLoop(ts, 1, ParserState, <<>>)

(***************************************************************************)
(* Token sequences as Tokenizer.scanTokens emits them (inputs of parse).   *)
(***************************************************************************)
RECURSIVE Flatten(_)
Flatten(seqs) == IF seqs = <<>> THEN <<>> ELSE Head(seqs) \o Flatten(Tail(seqs))

Tok(type) == [type |-> type, lexeme |-> <<>>, literal |-> <<>>]

\* a tag token: addToken(type, tag)
Tag(type, name) == [type |-> type, lexeme |-> <<>>, literal |-> name]

\* a run of literal text outside {{ }} (scanText)
Text(atoms) == [type |-> "STRING", lexeme |-> atoms, literal |-> atoms]

\* a double-quoted string inside {{ }} (ExpressionTokenizer.string)
Quoted(atoms) == [type |-> "STRING", lexeme |-> <<"\"">> \o atoms \o <<"\"">>, literal |-> atoms]

Ident(name) == [type |-> "IDENTIFIER", lexeme |-> <<name>>, literal |-> <<>>]

\* {{ ... }}: handleOpeningBrace, the tokens between, handleClosingBrace
Braces(inner) == <<Tok("DOUBLE_BRACE_OPEN")>> \o inner \o <<Tok("DOUBLE_BRACE_CLOSE")>>

\* {{ name }}
TVar(name) == Braces(<<Ident(name)>>)

\* {{#if name}}, {{#elseif name}}, {{#not name}}, {{#each name}}, {{#eachN name}}
TOpen(tag, name) ==
  Braces(<<Tag(IF tag \in {"if", "elseif", "not"} THEN "TAG_CONDITIONAL" ELSE "TAG_EACH", tag),
           Ident(name)>>)

\* {{#else}}
TElse == Braces(<<Tag("TAG_CONDITIONAL", "else")>>)

\* {{/if}}, {{/not}}, {{/each}}, {{/eachN}}
TClose(tag) ==
  Braces(<<Tag(IF tag \in {"if", "not"} THEN "TAG_CONDITIONAL_CLOSE" ELSE "TAG_EACH_CLOSE", tag)>>)

\* {{@index}}
TIndex == Braces(<<Tok("AT_INDEX")>>)

\* {{#include("path")}}
TInclude(path) == Braces(<<Tok("TAG_INCLUDE"), Tok("LPAREN"), Quoted(path), Tok("RPAREN")>>)

\* {{#set name = "atoms"}} and, with chain = <<prop>>, {{#set name.prop = "atoms"}}
TSet(name, chain, atoms) ==
  Braces(<<Tok("TAG_SET"), Ident(name)>>
           \o Flatten([i \in 1..Len(chain) |-> <<Tok("DOT"), Ident(chain[i])>>])
           \o <<Tok("EQUAL"), Quoted(atoms)>>)

\* {{#html_x}}
TRaw(name) == Braces(<<[type |-> "RAW_HTML", lexeme |-> <<"#", name>>, literal |-> <<name>>]>>)

\* {{ a + b }} and {{ a.b }}
TPlus(a, b) == Braces(<<Ident(a), Tok("PLUS"), Ident(b)>>)

TProp(a, b) == Braces(<<Ident(a), Tok("DOT"), Ident(b)>>)

(***************************************************************************)
(* Objects: an object is an ordered list of [key, value] pairs (insertion  *)
(* order, as Object.entries reports it); keys are single atoms.            *)
(***************************************************************************)
Has(o, key) == \E i \in 1..Len(o) : o[i].key = key

Get(o, key) == IF Has(o, key) THEN o[CHOOSE i \in 1..Len(o) : o[i].key = key].value ELSE Undef

\* `name in obj` for a name given as atoms: only a one-atom name can be a key
HasName(o, name) == Len(name) = 1 /\ Has(o, name[1])

\* { ...a, ...b }
RECURSIVE Spread(_, _)
Spread(a, b) == IF b = <<>> THEN a ELSE Spread(MapSet(a, Head(b).key, Head(b).value), Tail(b))

\* name.startsWith("html_"): the identifiers of the model that begin so
HtmlWords == {"html_x", "html_y"}

startsWithHtml(name) == name # <<>> /\ name[1] \in HtmlWords

\* name.split(".")
RECURSIVE SplitAt(_, _, _)
SplitAt(s, seps, cur) ==
  IF s = <<>> THEN <<cur>>
  ELSE IF Head(s) \in seps THEN <<cur>> \o SplitAt(Tail(s), seps, <<>>)
  ELSE SplitAt(Tail(s), seps, Append(cur, Head(s)))

\* the for loop of resolveVariable over the parts of a dotted path
RECURSIVE walkParts(_, _, _)
walkParts(h, value, parts) ==
  IF parts = <<>> THEN [found |-> TRUE, value |-> value]
  ELSE IF value.k = "ref" /\ HasName(h[value.id], Head(parts))
    THEN walkParts(h, Get(h[value.id], Head(parts)[1]), Tail(parts))
  ELSE [found |-> FALSE, value |-> Undef]

\* BaseEvaluator.resolveVariable: h the heap, cc the current context (top of
\* contextStack), gd the id of the globalData object
resolveVariable(h, cc, gd, name) ==
  IF cc.k = "ref" /\ HasName(h[cc.id], name) THEN Get(h[cc.id], name[1])
  ELSE IF HasName(h[gd], name) THEN Get(h[gd], name[1])
  ELSE IF ~ContainsDot(name) THEN Undef
  ELSE LET parts == SplitAt(name, {"."}, <<>>)
           inCtx == IF cc.k \in {"ref", "arr"} THEN walkParts(h, cc, parts)
                    ELSE [found |-> FALSE, value |-> Undef] IN
       IF inCtx.found THEN inCtx.value ELSE walkParts(h, Ref(gd), parts).value

\* src/core/utils/escapeHtml.js
escapeMap(c) ==
  CASE c = "&" -> "&amp;"
    [] c = "<" -> "&lt;"
    [] c = ">" -> "&gt;"
    [] c = "\"" -> "&quot;"
    [] c = "'" -> "&#39;"
    [] OTHER -> c

escapeHtml(s) == [i \in 1..Len(s) |-> escapeMap(s[i])]

\* evaluateBinaryOp, on the values of the model
NaN == [k |-> "nan"]

evaluateBinaryOp(operator, left, right) ==
  IF operator = "PLUS"
    THEN IF left.k = "num" /\ right.k = "num" THEN Num(left.n + right.n)
         ELSE Str(JsToString(left) \o JsToString(right))
  ELSE IF left.k = "num" /\ right.k = "num"
    THEN CASE operator = "MINUS" -> Num(left.n - right.n)
           [] operator = "MULTIPLY" -> Num(left.n * right.n)
           [] operator = "DIVIDE" /\ right.n # 0 /\ left.n % right.n = 0 -> Num(left.n \div right.n)
           [] OTHER -> NaN
  ELSE NaN

(***************************************************************************)
(* The tokenizer.  The source of a template is a sequence of atoms: a      *)
(* punctuation character, a digit, or a word, i.e. a run of letters that   *)
(* the tokenizer never splits.  t is the TokenizerState; `position`, which *)
(* only error messages use, is left out, and err holds the message of the  *)
(* error thrown ("" while none was).  Numbers with a fraction and strings  *)
(* in backquotes are not modelled.                                         *)
(***************************************************************************)
TokenizerState(source) ==
  [source |-> source, tokens |-> <<>>, start |-> 1, current |-> 1,
   isInExpression |-> FALSE, braceCount |-> 0, err |-> ""]

\* the "\0" that peek and peekNext return at the end of the source
NUL == "\\0"

\* the characters that are neither letters nor digits
Punctuation ==
  {"{", "}", "@", "#", "/", "(", ")", "[", "]", ".", ",", "+", "-", "*", "%", "&", "|", "=",
   "!", ">", "<", "\"", "'", " ", "\r", "\t", "\n", "?", ":", "$", "~", ";", "^", NUL}

isDigit(c) == c \in {"0", "1", "2", "3", "4", "5", "6", "7", "8", "9"}

\* c is a letter, or a word of letters
isAlpha(c) == c \notin Punctuation /\ ~isDigit(c)

\* the words of one letter
Letters ==
  {"a", "b", "c", "d", "e", "f", "g", "h", "i", "j", "k", "l", "m", "n", "o", "p", "q", "r",
   "s", "t", "u", "v", "w", "x", "y", "z", "A", "B", "N", "V", "X", "_"}

peek(t) == IF t.current > Len(t.source) THEN NUL ELSE t.source[t.current]

peekNext(t) == IF t.current + 1 > Len(t.source) THEN NUL ELSE t.source[t.current + 1]

advance(t) == [t EXCEPT !.current = @ + 1]

\* literal <<>> stands for null
addToken(t, type, literal) ==
  [t EXCEPT !.tokens = Append(@, [type |-> type, lexeme |-> SubSeq(t.source, t.start, t.current - 1),
                                  literal |-> literal])]

\* a throw that is lost: the scan goes on
throwLost(t, msg) == t

\* throw new Error(msg)
throw(t, msg) == [t EXCEPT !.err = msg]

\* isAlpha, isDigit, isAlphaNumeric
accepts(kind, c) ==
  CASE kind = "isAlpha" -> isAlpha(c)
    [] kind = "isDigit" -> isDigit(c)
    [] kind = "isAlphaNumeric" -> isAlpha(c) \/ isDigit(c)

\* while (this.<kind>(this.peek())) this.advance()
RECURSIVE scanWhile(_, _)
scanWhile(t, kind) == IF accepts(kind, peek(t)) THEN scanWhile(advance(t), kind) ELSE t

\* source.substring(from, to) as one string
RECURSIVE substring(_, _, _)
substring(source, from, to) ==
  IF from >= to THEN "" ELSE source[from] \o substring(source, from + 1, to)

\* TagTokenizer.handleTag and handleSlash read the tag name alike: letters,
\* then digits after "each"; after html_ letters and digits
tagName(t) ==
  LET word == scanWhile(t, IF peek(t) \in HtmlWords THEN "isAlphaNumeric" ELSE "isAlpha") IN
  IF substring(t.source, t.current, word.current) = "each" THEN scanWhile(word, "isDigit") ELSE word

handleTag(t) ==
  LET u == tagName(t)
      tag == substring(t.source, t.current, u.current) IN
  IF tag = "set" THEN addToken(u, "TAG_SET", <<>>)
  ELSE IF tag \in {"if", "elseif", "else", "not"} THEN addToken(u, "TAG_CONDITIONAL", tag)
  ELSE IF peek(t) = "each" /\ scanWhile(t, "isAlpha").current = t.current + 1
    THEN addToken(u, "TAG_EACH", tag)
  ELSE IF tag = "include" THEN addToken(u, "TAG_INCLUDE", <<>>)
  ELSE IF peek(t) \in HtmlWords THEN addToken(u, "RAW_HTML", <<tag>>)
  ELSE throw(u, "Unexpected tag")

\* handleSlash: peekNext() is the character after the next one, the second
\* letter of a word of two letters or more
handleSlash(t) ==
  LET second == IF isAlpha(peek(t)) /\ peek(t) \notin Letters THEN peek(t) ELSE peekNext(t)
      word == scanWhile(t, "isAlpha")
      isEach == substring(t.source, t.current, word.current) = "each"
      u == IF isEach THEN scanWhile(word, "isDigit") ELSE word
      tag == substring(t.source, t.current, u.current) IN
  IF ~isAlpha(second) THEN addToken(t, "DIVIDE", <<>>)
  ELSE IF isEach THEN addToken(u, "TAG_EACH_CLOSE", tag)
  ELSE IF tag \in {"if", "not"} THEN addToken(u, "TAG_CONDITIONAL_CLOSE", tag)
  ELSE throw(u, "Unexpected closing tag")

\* handleAtSymbol: the five matches i, n, d, e, x
handleAtSymbol(t) ==
  IF peek(t) = "index" THEN addToken(advance(t), "AT_INDEX", <<>>)
  ELSE throw(t, "Unexpected @ syntax")

\* ExpressionTokenizer.string
string(t, quote) ==
  LET closing == {i \in t.current..Len(t.source) : t.source[i] = quote} IN
  IF closing = {} THEN throw(t, "Unterminated string")
  ELSE LET i == CHOOSE x \in closing : \A y \in closing : x <= y IN
       addToken([t EXCEPT !.current = i + 1], "STRING", SubSeq(t.source, t.current, i - 1))

\* ExpressionTokenizer.identifier
identifier(t) ==
  LET u == scanWhile(t, "isAlphaNumeric")
      text == substring(t.source, t.start, u.current) IN
  addToken(u, CASE text = "true" -> "TRUE"
                [] text = "false" -> "FALSE"
                [] text = "this" -> "THIS"
                [] OTHER -> "IDENTIFIER", <<>>)

\* Number("d1 d2 ... dn")
RECURSIVE Number(_)
Number(digits) ==
  IF digits = <<>> THEN 0
  ELSE 10 * Number(SubSeq(digits, 1, Len(digits) - 1))
         + (CHOOSE d \in 0..9 : ToString(d) = digits[Len(digits)])

\* ExpressionTokenizer.number
number(t) ==
  LET u == scanWhile(t, "isDigit") IN
  addToken(u, "NUMBER", Number(SubSeq(t.source, t.start, u.current - 1)))

\* OperatorTokenizer: the handler of c, one of & | = ! > <
operator(t, c) ==
  LET two == peek(t) = (IF c \in {"&", "|"} THEN c ELSE "=")
      three == two /\ peekNext(t) = "="
      One(type) == addToken(t, type, <<>>)
      Two(type) == addToken(advance(t), type, <<>>)
      Three(type) == addToken(advance(advance(t)), type, <<>>) IN
  CASE c = "&" -> IF two THEN Two("AND") ELSE t
    [] c = "|" -> IF two THEN Two("OR") ELSE One("PIPE_FILTER")
    [] c = "=" -> IF three THEN Three("STRICT_EQUAL") ELSE IF two THEN Two("EQUAL") ELSE One("EQUAL")
    [] c = "!" -> IF three THEN Three("STRICT_NOT_EQUAL") ELSE IF two THEN Two("NOT_EQUAL")
                  ELSE One("NOT")
    [] c = ">" -> IF two THEN Two("GREATER_EQUAL") ELSE One("GREATER")
    [] c = "<" -> IF two THEN Two("LESS_EQUAL") ELSE One("LESS")

handleOpeningBrace(t) ==
  IF peek(t) = "{"
    THEN [addToken(advance(t), "DOUBLE_BRACE_OPEN", <<>>) EXCEPT !.isInExpression = TRUE]
  ELSE IF t.isInExpression THEN addToken([t EXCEPT !.braceCount = @ + 1], "LBRACE", <<>>)
  ELSE t

\* a handleClosingBrace that tries the }} first
handleClosingBraceDouble(t) ==
  IF peek(t) = "}"
    THEN [addToken(advance(t), "DOUBLE_BRACE_CLOSE", <<>>) EXCEPT !.isInExpression = FALSE]
  ELSE IF t.braceCount > 0 THEN addToken([t EXCEPT !.braceCount = @ - 1], "RBRACE", <<>>)
  ELSE t

handleClosingBrace(t) ==
  IF t.braceCount > 0 THEN addToken([t EXCEPT !.braceCount = @ - 1], "RBRACE", <<>>)
  ELSE IF peek(t) = "}"
    THEN [addToken(advance(t), "DOUBLE_BRACE_CLOSE", <<>>) EXCEPT !.isInExpression = FALSE]
  ELSE t

\* the cases of scanToken that add one token for one character
SingleCharacter ==
  [x \in {"(", ")", "[", "]", ".", ",", "+", "-", "%", "?", ":"} |->
     CASE x = "(" -> "LPAREN" [] x = ")" -> "RPAREN" [] x = "[" -> "LBRACKET"
       [] x = "]" -> "RBRACKET" [] x = "." -> "DOT" [] x = "," -> "COMMA" [] x = "+" -> "PLUS"
       [] x = "-" -> "MINUS" [] x = "%" -> "MODULO" [] x = "?" -> "QUESTION" [] x = ":" -> "COLON"]

scanToken(t) ==
  LET c == peek(t)
      u == advance(t) IN
  CASE c = "{" -> handleOpeningBrace(u)
    [] c = "}" -> handleClosingBrace(u)
    [] c = "@" -> handleAtSymbol(u)
    [] c = "#" -> handleTag(u)
    [] c = "/" -> handleSlash(u)
    [] c \in DOMAIN SingleCharacter -> addToken(u, SingleCharacter[c], <<>>)
    [] c = "*" -> IF peek(u) = "*" THEN addToken(advance(u), "POWER", <<>>)
                  ELSE addToken(u, "MULTIPLY", <<>>)
    [] c \in {"&", "|", "=", "!", ">", "<"} -> operator(u, c)
    [] c \in {"\"", "'"} -> string(u, c)
    [] c \in {" ", "\r", "\t", "\n"} -> u
    [] isDigit(c) -> number(u)
    [] isAlpha(c) -> identifier(u)
    [] OTHER -> throw(u, "Unexpected character")

\* a scanText that stops at every {
scanTextAtBrace(t) ==
  LET braces == {i \in t.current..Len(t.source) : t.source[i] = "{"}
      stop == IF braces = {} THEN Len(t.source) + 1
              ELSE CHOOSE x \in braces : \A y \in braces : x <= y
      text == IF stop > t.start
                THEN addToken([t EXCEPT !.current = stop], "STRING", SubSeq(t.source, t.start, stop - 1))
                ELSE t
      u == [text EXCEPT !.start = stop] IN
  IF stop > Len(t.source) THEN u ELSE scanToken(u)

scanText(t) ==
  LET braces == {i \in t.current..(Len(t.source) - 1) : t.source[i] = "{" /\ t.source[i + 1] = "{"}
      stop == IF braces = {} THEN Len(t.source) + 1
              ELSE CHOOSE x \in braces : \A y \in braces : x <= y
      text == IF stop > t.start
                THEN addToken([t EXCEPT !.current = stop], "STRING", SubSeq(t.source, t.start, stop - 1))
                ELSE t
      u == [text EXCEPT !.start = stop] IN
  IF stop > Len(t.source) THEN u ELSE scanToken(u)

\* the body of the while loop of scanTokens
scanStep(t) ==
  IF ~t.isInExpression THEN scanText([t EXCEPT !.start = t.current])
  ELSE scanToken([t EXCEPT !.start = t.current])

\* the while loop of scanTokens
RECURSIVE scanLoop(_)
scanLoop(t) ==
  IF t.err # "" THEN t
  ELSE IF t.current > Len(t.source) THEN [t EXCEPT !.tokens = Append(@, Tok("EOF"))]
  ELSE scanLoop(scanStep(t))

scanTokens(source) == scanLoop(TokenizerState(source))

(***************************************************************************)
(* File paths.  A path is a string, hence a sequence of atoms in which "/" *)
(* and "." are atoms of their own; a segment is the atoms between slashes. *)
(* dirname, join, normalize and resolve are node:path's (posix).           *)
(***************************************************************************)
Dot == <<".">>

DotDot == <<".", ".">>

split(path) == SplitAt(path, {"/", "\\"}, <<>>)

RECURSIVE joinSegments(_)
joinSegments(segs) ==
  IF segs = <<>> THEN <<>>
  ELSE IF Len(segs) = 1 THEN segs[1]
  ELSE segs[1] \o <<"/">> \o joinSegments(Tail(segs))

startsWith(s, prefix) == Len(s) >= Len(prefix) /\ SubSeq(s, 1, Len(prefix)) = prefix

endsWith(s, suffix) == Len(s) >= Len(suffix) /\ SubSeq(s, Len(s) - Len(suffix) + 1, Len(s)) = suffix

isRelative(path) == startsWith(path, <<".", "/">>) \/ startsWith(path, <<".", ".", "/">>)

\* node:path normalizeString: "." and "" dropped, ".." removes the segment
\* before it, or is kept when a relative path has nothing left to remove
RECURSIVE posixSegments(_, _, _)
posixSegments(segs, isAbs, res) ==
  IF segs = <<>> THEN res
  ELSE LET g == Head(segs) IN
       IF g = <<>> \/ g = Dot THEN posixSegments(Tail(segs), isAbs, res)
       ELSE IF g = DotDot
         THEN IF res # <<>> /\ res[Len(res)] # DotDot
                THEN posixSegments(Tail(segs), isAbs, SubSeq(res, 1, Len(res) - 1))
              ELSE IF isAbs THEN posixSegments(Tail(segs), isAbs, res)
              ELSE posixSegments(Tail(segs), isAbs, Append(res, g))
       ELSE posixSegments(Tail(segs), isAbs, Append(res, g))

normalize(path) ==
  LET isAbs == startsWith(path, <<"/">>)
      body == joinSegments(posixSegments(split(path), isAbs, <<>>)) IN
  IF isAbs THEN <<"/">> \o body ELSE IF body = <<>> THEN Dot ELSE body

join(a, b) == normalize(a \o <<"/">> \o b)

dirname(path) ==
  LET slashes == {i \in 1..Len(path) : path[i] = "/"} IN
  IF slashes = {} THEN Dot
  ELSE LET last == CHOOSE i \in slashes : \A j \in slashes : j <= i IN
       IF last = 1 THEN <<"/">> ELSE SubSeq(path, 1, last - 1)

\* process.cwd()
Cwd == <<"/", "app">>

resolve(path) == IF startsWith(path, <<"/">>) THEN normalize(path) ELSE join(Cwd, path)

\* STE.#setRootPrefix: the new #basePath ([set, segs]; set = FALSE is null)
setRootPrefix(basePath, path) ==
  IF basePath.set THEN basePath
  ELSE LET segments == split(path) IN
       [set |-> TRUE,
        segs |-> IF Len(segments) > 2 THEN SubSeq(segments, 1, Len(segments) - 2) ELSE <<>>]

\* the for loop of #normalizePath
RECURSIVE normalizeSegments(_, _)
normalizeSegments(segs, result) ==
  IF segs = <<>> THEN result
  ELSE LET segment == Head(segs) IN
       IF segment = Dot \/ segment = <<>> THEN normalizeSegments(Tail(segs), result)
       ELSE IF segment = DotDot
         THEN normalizeSegments(Tail(segs),
                IF result = <<>> THEN result ELSE SubSeq(result, 1, Len(result) - 1))
       ELSE normalizeSegments(Tail(segs), Append(result, segment))

\* STE.#normalizePath
normalizePath(basePath, path) ==
  LET segments == split(path)
      result == IF ~isRelative(path) /\ basePath.set
                   /\ (basePath.segs = <<>> \/ segments[1] # basePath.segs[1])
                  THEN basePath.segs ELSE <<>> IN
  joinSegments(normalizeSegments(segments, result))

\* STE.#resolvePath after the await: includingTemplate is the top of the
\* include stack, or #currentTemplate when the stack is empty
resolvePath(baseDir, isRootMode, basePath, includingTemplate, filePath) ==
  LET absoluteBaseDir == normalize(resolve(baseDir)) IN
  IF isRelative(filePath)
    THEN LET includingTemplateDir == dirname(includingTemplate)
             combinedPath == join(includingTemplateDir, filePath)
             normalizedPath == normalizePath(basePath, combinedPath)
             resolvedPath == join(absoluteBaseDir, normalizedPath) IN
         IF isRootMode /\ ~startsWith(resolvedPath, resolve(<<".", "/">>))
           THEN [ok |-> FALSE, path |-> <<>>, err |-> "Cannot include files outside of project root"]
           ELSE [ok |-> TRUE, path |-> resolvedPath, err |-> ""]
    ELSE [ok |-> TRUE, path |-> join(absoluteBaseDir, normalizePath(basePath, filePath)), err |-> ""]

(***************************************************************************)
(* The running program.  Every call of an async function is an activation; *)
(* `run` is the synchronous call stack, `mq` the microtask queue of the    *)
(* JavaScript job loop, `io` the activations waiting for a file read or a  *)
(* module import.  An `await` suspends the activation: it is resumed by a  *)
(* job that is queued when the awaited promise has settled.                *)
(***************************************************************************)
VARIABLES
  fs,     \* the files on disk: a list of [path, tokens]
  heap,   \* the objects
  ste,    \* the STE instance: baseDir, isRootMode, currentTemplate, includeStack,
          \* htmlVars, pathUtils, basePath
  rnd,    \* how many markers Math.random has produced
  evs,    \* the EvaluatorState instances
  acts,   \* the activations
  run,    \* the call stack: activation ids, the running one last
  mq,     \* the microtask queue: jobs [a, k]
  io,     \* activations waiting for the file system
  calls,  \* the host's render calls: [filePath, data, st, out]
  host,   \* how the host issues its calls
  log,    \* what happened: variable lookups, path resolutions, parses
  cycleGenerators,  \* builtInFilters.js: the Map of generators, a list of [key, value]
  cycleCounter      \* builtInFilters.js: how many ids cycle has minted

vars == <<fs, heap, ste, rnd, evs, acts, run, mq, io, calls, host, log, cycleGenerators, cycleCounter>>

Error(msg) == [k |-> "error", msg |-> msg]

\* scanErr: the message of the error scanTokens throws on content, "" if none
NoArg == [filePath |-> <<>>, data |-> Undef, content |-> <<>>, scanErr |-> "", loc |-> <<>>]

Top == run[Len(run)]

Me == acts[Top]

Kid == acts[Me.c]

Running(fn) == run # <<>> /\ Me.fn = fn /\ ~Me.aw

Front(q) == SubSeq(q, 1, Len(q) - 1)

Activation(fn, node, ev, parent, slot, call, arg, frame) ==
  [fn |-> fn, pc |-> "start", aw |-> FALSE, node |-> node, ev |-> ev, parent |-> parent,
   slot |-> slot, call |-> call, arg |-> arg, frame |-> frame, st |-> "run", val |-> Undef,
   c |-> 0, i |-> 0, j |-> 0, acc |-> <<>>, tmp |-> Undef, cur |-> Undef, kids |-> <<>>,
   n |-> 0, all |-> "none"]

\* a call made by the running activation
NewAct(fn, node, ev, arg) == Activation(fn, node, ev, Top, 0, Me.call, arg, Me.frame)

\* `await f(...)`: the running activation (left as me) calls f and will await
\* the promise f returns
Call(me, child) ==
  /\ acts' = Append([acts EXCEPT ![Top] = [me EXCEPT !.c = Len(acts) + 1, !.aw = TRUE]], child)
  /\ run' = Append(run, Len(acts) + 1)
  /\ UNCHANGED <<mq, calls>>

\* the running activation goes on with its synchronous code as me
Goto(me) ==
  /\ acts' = [acts EXCEPT ![Top] = me]
  /\ UNCHANGED <<run, mq, calls>>

\* the running activation returns (st = "ok") or throws (st = "err"): its
\* promise settles, and a parent that awaits it gets a job
Settle(st, val) ==
  /\ acts' = [acts EXCEPT ![Top] = [Me EXCEPT !.st = st, !.val = val, !.node = Nil, !.kids = <<>>]]
  /\ run' = Front(run)
  /\ mq' = IF Me.parent # 0 /\ acts[Me.parent].st = "wait"
             THEN Append(mq, [a |-> Me.parent, k |-> Me.slot]) ELSE mq
  /\ calls' = IF Me.parent = 0
                THEN [calls EXCEPT ![Me.call] = [@ EXCEPT !.st = st, !.out = val]] ELSE calls

\* the running activation suspends until the file system answers
IoWait(me) ==
  /\ acts' = [acts EXCEPT ![Top] = [me EXCEPT !.st = "wait"]]
  /\ run' = Front(run)
  /\ io' = io \cup {Top}
  /\ UNCHANGED <<mq, calls>>

(***************************************************************************)
(* The job loop                                                            *)
(***************************************************************************)
\* `await p`, p the promise of the call just made: suspend; if p has settled
\* already the continuation is queued at once
Await ==
  /\ run # <<>> /\ Me.aw
  /\ acts' = [acts EXCEPT ![Top] = [Me EXCEPT !.aw = FALSE, !.st = "wait"]]
  /\ run' = Front(run)
  /\ mq' = IF Kid.st \in {"ok", "err"} THEN Append(mq, [a |-> Top, k |-> 0]) ELSE mq
  /\ UNCHANGED <<fs, cycleGenerators, cycleCounter, heap, ste, rnd, evs, io, calls, host, log>>

\* the job loop takes the next job: the continuation of an await
Resume ==
  /\ run = <<>> /\ mq # <<>> /\ Head(mq).k = 0
  /\ run' = <<Head(mq).a>>
  /\ mq' = Tail(mq)
  /\ acts' = [acts EXCEPT ![Head(mq).a].st = "run"]
  /\ UNCHANGED <<fs, cycleGenerators, cycleCounter, heap, ste, rnd, evs, io, calls, host, log>>

\* the job loop takes the next job: Promise.all's reaction to its k-th
\* element having settled.  The last fulfilment fulfils the promise of
\* Promise.all, the first rejection rejects it.
ResolveElement ==
  /\ run = <<>> /\ mq # <<>> /\ Head(mq).k > 0
  /\ LET a == Head(mq).a
         p == acts[a]
         kid == acts[p.kids[Head(mq).k]] IN
     IF p.st # "wait" \/ p.all # "pending"
       THEN mq' = Tail(mq) /\ acts' = acts
     ELSE IF kid.st = "err"
       THEN /\ acts' = [acts EXCEPT ![a].all = "err", ![a].tmp = kid.val]
            /\ mq' = Append(Tail(mq), [a |-> a, k |-> 0])
     ELSE /\ acts' = [acts EXCEPT ![a].n = p.n - 1, ![a].all = IF p.n = 1 THEN "ok" ELSE "pending"]
          /\ mq' = IF p.n = 1 THEN Append(Tail(mq), [a |-> a, k |-> 0]) ELSE Tail(mq)
  /\ UNCHANGED <<fs, cycleGenerators, cycleCounter, heap, ste, rnd, evs, run, io, calls, host, log>>

\* the file system answers one of the waiting activations
IOComplete ==
  /\ run = <<>> /\ mq = <<>>
  /\ \E a \in io :
       /\ io' = io \ {a}
       /\ run' = <<a>>
       /\ acts' = [acts EXCEPT ![a].st = "run"]
  /\ UNCHANGED <<fs, cycleGenerators, cycleCounter, heap, ste, rnd, evs, mq, calls, host, log>>

(***************************************************************************)
(* The engine facade, src/core/STE/ste.js                                  *)
(***************************************************************************)
Null == [set |-> FALSE, path |-> <<>>]

\* `__HTML_${Math.random().toString(36).substring(2, 11)}__`: the n-th marker.
\* A marker is one atom: its nine random characters occur nowhere else.
Markers == <<"__HTML_1__", "__HTML_2__", "__HTML_3__", "__HTML_4__", "__HTML_5__", "__HTML_6__">>

isMarker(atom) == \E i \in 1..Len(Markers) : Markers[i] = atom

\* String.prototype.replace(pattern, replacement) with a string pattern: the
\* first occurrence only
replace(s, pattern, replacement) ==
  LET hits == {i \in 1..(Len(s) - Len(pattern) + 1) : SubSeq(s, i, i + Len(pattern) - 1) = pattern} IN
  IF hits = {} THEN s
  ELSE LET i == CHOOSE x \in hits : \A y \in hits : x <= y IN
       SubSeq(s, 1, i - 1) \o replacement \o SubSeq(s, i + Len(pattern), Len(s))

\* the loop of render that puts the html_ values back
RECURSIVE restoreHtml(_, _)
restoreHtml(result, htmlVars) ==
  IF htmlVars = <<>> THEN result
  ELSE restoreHtml(replace(result, JsToString(Head(htmlVars).value.marker),
                           JsToString(Head(htmlVars).value.value)), Tail(htmlVars))

\* the loop of renderStringWithoutRestore over Object.entries(data): r is
\* [htmlVars, data, rnd]
RECURSIVE markHtmlVars(_, _)
markHtmlVars(entries, r) ==
  IF entries = <<>> THEN r
  ELSE LET key == Head(entries).key IN
       IF key \in HtmlWords /\ ~Has(r.htmlVars, key)
         THEN LET marker == Str(<<Markers[r.rnd + 1]>>) IN
              markHtmlVars(Tail(entries),
                [htmlVars |-> MapSet(r.htmlVars, key, [marker |-> marker, value |-> Head(entries).value]),
                 data |-> MapSet(r.data, key, marker),
                 rnd |-> r.rnd + 1])
         ELSE markHtmlVars(Tail(entries), r)

\* Array.prototype.includes on the include stack
includes(stack, filePath) == \E i \in 1..Len(stack) : stack[i].path = filePath

\* the host calls render(filePath, data) on the engine
StartRender ==
  /\ run = <<>>
  /\ host.next <= Len(calls)
  /\ host.mode = "conc" \/ \A c \in 1..(host.next - 1) : calls[c].st \in {"ok", "err"}
  /\ acts' = Append(acts, Activation("render", Nil, 0, 0, 0, host.next,
                      [NoArg EXCEPT !.filePath = calls[host.next].filePath,
                                    !.data = calls[host.next].data], Undef))
  /\ run' = <<Len(acts) + 1>>
  /\ calls' = [calls EXCEPT ![host.next].st = "pending"]
  /\ host' = [host EXCEPT !.next = @ + 1]
  /\ UNCHANGED <<fs, cycleGenerators, cycleCounter, heap, ste, rnd, evs, mq, io, log>>

render ==
  /\ Running("render")
  /\ IF Me.pc = "start"
       THEN /\ ste' = [ste EXCEPT !.basePath = setRootPrefix(@, Me.arg.filePath),
                                  !.currentTemplate = [set |-> TRUE, path |-> Me.arg.filePath]]
            /\ Call([Me EXCEPT !.pc = "processed", !.cur = ste.currentTemplate],
                    NewAct("renderStringWithoutRestore", Nil, 0, Me.arg))
     ELSE IF Kid.st = "err"
       THEN /\ ste' = [ste EXCEPT !.currentTemplate = Null]
            /\ Settle("err", Kid.val)
     ELSE /\ ste' = [ste EXCEPT !.currentTemplate = Me.cur]
          /\ Settle("ok", Str(restoreHtml(JsToString(Kid.val), ste.htmlVars)))
  /\ UNCHANGED <<fs, cycleGenerators, cycleCounter, heap, rnd, evs, io, host, log>>

renderStringWithoutRestore ==
  /\ Running("renderStringWithoutRestore")
  /\ LET filePath == Me.arg.filePath
         data == Me.arg.data
         catch == /\ ste' = [ste EXCEPT !.includeStack =
                               IF includes(@, filePath) THEN Front(@) ELSE @]
                  /\ Settle("err", Kid.val)
                  /\ UNCHANGED <<heap, rnd>> IN
     CASE Me.pc = "start" ->
            /\ Call([Me EXCEPT !.pc = "content"], NewAct("readFile", Nil, Me.ev, Me.arg))
            /\ UNCHANGED <<heap, ste, rnd>>
       [] Me.pc = "content" ->
            IF Kid.st = "err" THEN catch
            ELSE LET r0 == [htmlVars |-> ste.htmlVars,
                            data |-> IF data.k = "ref" THEN heap[data.id] ELSE <<>>, rnd |-> rnd]
                     r == markHtmlVars(r0.data, r0) IN
                 /\ ste' = [ste EXCEPT !.includeStack = Append(@, [path |-> filePath, call |-> Me.call]),
                                       !.htmlVars = r.htmlVars]
                 /\ heap' = IF data.k = "ref" THEN [heap EXCEPT ![data.id] = r.data] ELSE heap
                 /\ rnd' = r.rnd
                 /\ Call([Me EXCEPT !.pc = "processed"],
                         NewAct("processExpressions", Nil, Me.ev,
                                [Me.arg EXCEPT !.content = Kid.val.tokens, !.scanErr = Kid.val.err,
                                                !.loc = Kid.val.path]))
       [] Me.pc = "processed" ->
            IF Kid.st = "err" THEN catch
            ELSE /\ ste' = [ste EXCEPT !.includeStack = Front(@)]
                 /\ Settle("ok", Kid.val)
                 /\ UNCHANGED <<heap, rnd>>
  /\ UNCHANGED <<fs, cycleGenerators, cycleCounter, evs, io, host, log>>

fileExists(path) == \E i \in 1..Len(fs) : fs[i].path = path

fileTokens(path) == fs[CHOOSE i \in 1..Len(fs) : fs[i].path = path].tokens

fileErr(path) == fs[CHOOSE i \in 1..Len(fs) : fs[i].path = path].err

\* #readFile: the two awaits that follow #resolvePath (import of
\* node:fs/promises, readFile) are one wait for the file system
readFile ==
  /\ Running("readFile")
  /\ CASE Me.pc = "start" ->
            /\ Call([Me EXCEPT !.pc = "resolved"], NewAct("resolvePath", Nil, Me.ev, Me.arg))
            /\ io' = io
       [] Me.pc = "resolved" ->
            IF Kid.st = "err" THEN Settle("err", Kid.val) /\ io' = io
            ELSE IoWait([Me EXCEPT !.pc = "read", !.tmp = Kid.val])
       [] Me.pc = "read" ->
            /\ IF fileExists(Me.tmp.s)
                 THEN Settle("ok", [k |-> "content", tokens |-> fileTokens(Me.tmp.s),
                                    err |-> fileErr(Me.tmp.s), path |-> Me.tmp.s])
                 ELSE Settle("err", Error("ENOENT: no such file or directory"))
            /\ io' = io
  /\ UNCHANGED <<fs, cycleGenerators, cycleCounter, heap, ste, rnd, evs, host, log>>

\* #resolvePath; the path is computed after `await this.#initPathUtils()`
resolvePathAsync ==
  /\ Running("resolvePath")
  /\ LET filePath == Me.arg.filePath IN
     CASE Me.pc = "start" ->
            /\ IF ~endsWith(filePath, <<".", "html">>)
                 THEN Settle("err", Error("Invalid file type. Only HTML files are supported."))
                 ELSE Call([Me EXCEPT !.pc = "utils"], NewAct("initPathUtils", Nil, Me.ev, NoArg))
            /\ log' = log
       [] Me.pc = "utils" ->
            LET stack == ste.includeStack
                including == IF stack # <<>> THEN [set |-> TRUE, path |-> stack[Len(stack)].path]
                             ELSE ste.currentTemplate
                owner == IF stack # <<>> THEN stack[Len(stack)].call ELSE 0
                r == resolvePath(ste.baseDir, ste.isRootMode, ste.basePath, including.path, filePath) IN
            IF isRelative(filePath) /\ ~including.set
              THEN Settle("err", Error("The \"path\" argument must be of type string")) /\ log' = log
              ELSE /\ log' = Append(log, [e |-> "resolve", filePath |-> filePath, call |-> Me.call,
                                          including |-> including.path, owner |-> owner,
                                          from |-> IF Me.ev = 0 THEN <<>> ELSE evs[Me.ev].loc,
                                          depth |-> Len(stack),
                                          ok |-> r.ok, path |-> r.path])
                   /\ IF r.ok THEN Settle("ok", Str(r.path)) ELSE Settle("err", Error(r.err))
  /\ UNCHANGED <<fs, cycleGenerators, cycleCounter, heap, ste, rnd, evs, io, host>>

\* #initPathUtils: the first call imports node:path
initPathUtils ==
  /\ Running("initPathUtils")
  /\ IF Me.pc = "start"
       THEN IF ~ste.pathUtils
              THEN IoWait([Me EXCEPT !.pc = "imported"]) /\ ste' = ste
              ELSE Settle("ok", Undef) /\ UNCHANGED <<ste, io>>
       ELSE /\ ste' = [ste EXCEPT !.pathUtils = TRUE]
            /\ Settle("ok", Undef)
            /\ io' = io
  /\ UNCHANGED <<fs, cycleGenerators, cycleCounter, heap, rnd, evs, host, log>>

\* EvaluatorState.normalizeData
normalizeData(h, data) == IF data.k = "ref" THEN h[data.id] ELSE <<>>

\* #processExpressions: scanTokens, parse, new Evaluator(data, this), evaluate
processExpressions ==
  /\ Running("processExpressions")
  /\ IF Me.pc = "start" /\ Me.arg.scanErr # ""
       THEN /\ log' = Append(log, [e |-> "parse", loc |-> Me.arg.loc, call |-> Me.call, ok |-> FALSE])
            /\ Settle("err", Error(Me.arg.scanErr))
            /\ UNCHANGED <<heap, evs>>
     ELSE IF Me.pc = "start"
       THEN LET ast == parse(Me.arg.content)
                gd == Len(heap) + 1
                ev == Len(evs) + 1 IN
            /\ log' = Append(log, [e |-> "parse", loc |-> Me.arg.loc, call |-> Me.call, ok |-> ast.ok])
            /\ IF ~ast.ok
                 THEN Settle("err", Error(ast.err)) /\ UNCHANGED <<heap, evs>>
                 ELSE /\ heap' = Append(heap, normalizeData(heap, Me.arg.data))
                      /\ evs' = Append(evs, [globalData |-> gd, contextStack |-> <<Ref(gd)>>,
                                             indexStack |-> <<>>, keyStack |-> <<>>,
                                             loc |-> Me.arg.loc])
                      /\ Call([Me EXCEPT !.pc = "result"],
                              Activation("evaluate", ast.node, ev, Top, 0, Me.call, NoArg, Ref(gd)))
       ELSE Settle(Kid.st, Kid.val) /\ UNCHANGED <<heap, evs, log>>
  /\ UNCHANGED <<fs, cycleGenerators, cycleCounter, ste, rnd, io, host>>

(***************************************************************************)
(* The evaluator: Evaluator, ExpressionEvaluator, StatementEvaluator       *)
(***************************************************************************)
EV == evs[Me.ev]

currentContext == EV.contextStack[Len(EV.contextStack)]

\* a currentIndex that reads the bottom of the index stack
currentIndexOutermost == IF EV.indexStack = <<>> THEN Undef ELSE Num(EV.indexStack[1])

currentIndex == IF EV.indexStack = <<>> THEN Undef ELSE Num(EV.indexStack[Len(EV.indexStack)])

\* the node types evaluateNode hands to a method of its own
Delegated ==
  [template |-> "evaluateTemplate", expression |-> "evaluateExpression",
   variable |-> "evaluateVariable", raw_html |-> "evaluateRawHtml",
   property |-> "evaluateProperty", set |-> "evaluateSet", each |-> "evaluateEach",
   include |-> "evaluateInclude", conditional |-> "evaluateConditional",
   binary |-> "evaluateBinary", filter |-> "evaluateFilter"]

\* node types of the parser that this model does not evaluate
NotModelled == {"array", "object", "computed_property", "unary", "logical", "comparison",
                "ternary"}

evaluate ==
  /\ Running("evaluate")
  /\ IF Me.pc = "start"
       THEN Call([Me EXCEPT !.pc = "ret"], NewAct("evaluateNode", Me.node, Me.ev, NoArg))
       ELSE Settle(Kid.st, Kid.val)
  /\ UNCHANGED <<fs, cycleGenerators, cycleCounter, heap, ste, rnd, evs, io, host, log>>

evaluateNode ==
  /\ Running("evaluateNode")
  /\ Me.node.type \notin NotModelled
  /\ LET node == Me.node IN
     IF Me.pc = "ret" THEN Settle(Kid.st, Kid.val)
     ELSE IF node.type = "literal" THEN Settle("ok", node.value)
     ELSE IF node.type = "index_ref" THEN Settle("ok", currentIndex)
     ELSE IF node.type = "this_ref" THEN Settle("ok", currentContext)
     ELSE IF node.type = "grouping"
       THEN Call([Me EXCEPT !.pc = "ret"], NewAct("evaluateNode", node.expression, Me.ev, NoArg))
     ELSE IF node.type \in DOMAIN Delegated
       THEN Call([Me EXCEPT !.pc = "ret"], NewAct(Delegated[node.type], node, Me.ev, NoArg))
     ELSE IF node.type = "null"
       THEN Settle("err", Error("Cannot read properties of null (reading 'type')"))
     ELSE Settle("err", Error("Unknown node type"))
  /\ UNCHANGED <<fs, cycleGenerators, cycleCounter, heap, ste, rnd, evs, io, host, log>>

evaluateTemplate ==
  /\ Running("evaluateTemplate")
  /\ LET body == Me.node.body
         got == Me.pc = "got"
         acc == IF got THEN Me.acc \o JsToString(Kid.val) ELSE Me.acc
         i == IF got THEN Me.i + 1 ELSE Me.i IN
     IF got /\ Kid.st = "err" THEN Settle("err", Kid.val)
     ELSE IF i < Len(body)
       THEN Call([Me EXCEPT !.pc = "got", !.acc = acc, !.i = i],
                 NewAct("evaluateNode", body[i + 1], Me.ev, NoArg))
     ELSE Settle("ok", Str(acc))
  /\ UNCHANGED <<fs, cycleGenerators, cycleCounter, heap, ste, rnd, evs, io, host, log>>

evaluateExpression ==
  /\ Running("evaluateExpression")
  /\ IF Me.pc = "start"
       THEN Call([Me EXCEPT !.pc = "ret"], NewAct("evaluateNode", Me.node.expression, Me.ev, NoArg))
     ELSE IF Kid.st = "err" THEN Settle("err", Kid.val)
     ELSE Settle("ok", IF Kid.val # Undef THEN Kid.val ELSE EmptyStr)
  /\ UNCHANGED <<fs, cycleGenerators, cycleCounter, heap, ste, rnd, evs, io, host, log>>

\* a call of resolveVariable by the running activation, as the log keeps it
Lookup(name, value) ==
  [e |-> "lookup", name |-> name, value |-> value, top |-> currentContext,
   frame |-> Me.frame, ev |-> Me.ev, call |-> Me.call]

evaluateVariable ==
  /\ Running("evaluateVariable")
  /\ LET name == Me.node.name
         value == resolveVariable(heap, currentContext, EV.globalData, name) IN
     /\ log' = Append(log, Lookup(name, value))
     /\ IF startsWithHtml(name) /\ Has(ste.htmlVars, name[1])
          THEN Settle("ok", Get(ste.htmlVars, name[1]).value)
          ELSE Settle("ok", IF value # Undef THEN value ELSE EmptyStr)
  /\ UNCHANGED <<fs, cycleGenerators, cycleCounter, heap, ste, rnd, evs, io, host>>

evaluateRawHtml ==
  /\ Running("evaluateRawHtml")
  /\ LET htmlVarName == replace(Me.node.name, <<"#">>, <<>>)
         marker == IF HasName(heap[EV.globalData], htmlVarName)
                     THEN Get(heap[EV.globalData], htmlVarName[1]) ELSE Undef IN
     IF ~Truthy(marker) /\ marker # EmptyStr
       THEN Settle("err", Error("HTML variable not found"))
       ELSE Settle("ok", marker)
  /\ UNCHANGED <<fs, cycleGenerators, cycleCounter, heap, ste, rnd, evs, io, host, log>>

\* obj[property] for a property name given as atoms
getProperty(h, obj, property) ==
  IF obj.k = "ref" THEN (IF HasName(h[obj.id], property) THEN Get(h[obj.id], property[1]) ELSE Undef)
  ELSE IF obj.k = "arr" /\ property = <<"length">> THEN Num(Len(obj.a))
  ELSE IF obj.k = "str" /\ property = <<"length">> THEN Num(Len(obj.s))
  ELSE Undef

evaluateProperty ==
  /\ Running("evaluateProperty")
  /\ IF Me.pc = "start"
       THEN Call([Me EXCEPT !.pc = "ret"], NewAct("evaluateNode", Me.node.object, Me.ev, NoArg))
     ELSE IF Kid.st = "err" THEN Settle("err", Kid.val)
     ELSE IF ~Truthy(Kid.val) THEN Settle("ok", Undef)
     ELSE Settle("ok", getProperty(heap, Kid.val, Me.node.property))
  /\ UNCHANGED <<fs, cycleGenerators, cycleCounter, heap, ste, rnd, evs, io, host, log>>

evaluateBinary ==
  /\ Running("evaluateBinary")
  /\ CASE Me.pc = "start" ->
            Call([Me EXCEPT !.pc = "left"], NewAct("evaluateNode", Me.node.left, Me.ev, NoArg))
       [] Me.pc = "left" ->
            IF Kid.st = "err" THEN Settle("err", Kid.val)
            ELSE Call([Me EXCEPT !.pc = "right", !.tmp = Kid.val],
                      NewAct("evaluateNode", Me.node.right, Me.ev, NoArg))
       [] Me.pc = "right" ->
            IF Kid.st = "err" THEN Settle("err", Kid.val)
            ELSE Settle("ok", evaluateBinaryOp(Me.node.operator, Me.tmp, Kid.val))
  /\ UNCHANGED <<fs, cycleGenerators, cycleCounter, heap, ste, rnd, evs, io, host, log>>

(***************************************************************************)
(* Filters.  A filter returns or throws, and cycle and next work on the    *)
(* module-level generators: the outcome of an application is               *)
(* [ok, val, gens, counter].  Strings that a filter takes apart are        *)
(* spelled letter by letter.                                               *)
(***************************************************************************)
\* typeof value
typeof(v) ==
  CASE v.k = "str" -> "string"
    [] v.k \in {"num", "nan"} -> "number"
    [] v.k = "bool" -> "boolean"
    [] v.k = "undef" -> "undefined"
    [] OTHER -> "object"

\* the atoms of a string as one string, for the text of a message
text(atoms) == substring(atoms, 1, Len(atoms) + 1)

\* the keys of the object literal builtInFilters
builtInFilters ==
  {"cycle", "next", "abs", "capitalize", "currency", "dateFormat", "defaults", "dump", "escape",
   "fileSize", "first", "groupBy", "has", "int", "join", "last", "length", "log", "lowercase",
   "numberFormat", "preserveSpaces", "range", "removeSpaces", "replace", "reverse", "round",
   "safeStringify", "slugify", "sortBy", "sortByDate", "timeAgo", "toLink", "trim", "truncate",
   "truncateWords", "type", "uppercase", "where", "wordCount"}

\* the functions that { ...builtInFilters }, a plain object, inherits from
\* Object.prototype
ObjectPrototype ==
  {"constructor", "hasOwnProperty", "isPrototypeOf", "propertyIsEnumerable", "toLocaleString",
   "toString", "valueOf"}

\* this.filters[name] is truthy
filters(name) == name \in builtInFilters \cup ObjectPrototype

\* the filters whose application is modelled
Applied == {"cycle", "next", "truncate", "uppercase", "toString", "hasOwnProperty"}

Returned(val, gens, counter) == [ok |-> TRUE, val |-> val, gens |-> gens, counter |-> counter]

Thrown(msg, gens, counter) == [ok |-> FALSE, val |-> Error(msg), gens |-> gens, counter |-> counter]

\* cycle: a new generator under the id cycle_<counter>
cycle(values, gens, counter) ==
  IF Len(values) < 1 THEN Thrown("cycle filter requires at least one value", gens, counter)
  ELSE Returned(Str(<<"cycle_">> \o Digits(counter)),
                MapSet(gens, <<"cycle_">> \o Digits(counter), [values |-> values, currentIndex |-> -1]),
                counter + 1)

\* a next() that stays on the first value
nextIndexFirst(generator) == 0

\* a generator's next(): the index it moves to
nextIndex(generator) == (generator.currentIndex + 1) % Len(generator.values)

\* next: cycleGenerators.get(value) finds a generator only for the string
\* that cycle returned
next(value, gens, counter) ==
  IF value.k # "str" \/ ~Has(gens, value.s)
    THEN Thrown("No cycle found for ID: " \o text(JsToString(value)), gens, counter)
  ELSE Returned(Get(gens, value.s).values[nextIndex(Get(gens, value.s)) + 1],
                MapSet(gens, value.s, [Get(gens, value.s) EXCEPT !.currentIndex = nextIndex(Get(gens, value.s))]),
                counter)

\* String.prototype.toUpperCase, letter by letter
toUpperCase(s) ==
  LET upper == [a |-> "A", b |-> "B", c |-> "C", d |-> "D", e |-> "E", f |-> "F", g |-> "G",
                h |-> "H", i |-> "I", j |-> "J", k |-> "K", l |-> "L", m |-> "M", n |-> "N",
                o |-> "O", p |-> "P", q |-> "Q", r |-> "R", s |-> "S", t |-> "T", u |-> "U",
                v |-> "V", w |-> "W", x |-> "X", y |-> "Y", z |-> "Z"] IN
  [i \in 1..Len(s) |-> IF s[i] \in DOMAIN upper THEN upper[s[i]] ELSE s[i]]

uppercase(value) ==
  IF typeof(value) # "string" THEN [ok |-> FALSE, val |-> Error("uppercase filter expects a string, but got " \o typeof(value))]
  ELSE [ok |-> TRUE, val |-> Str(toUpperCase(value.s))]

\* a truncate that cuts without appending "..."
truncateBare(value, args) ==
  LET length == IF args = <<>> \/ args[1] = Undef THEN 50 ELSE args[1].n IN
  IF typeof(value) # "string" THEN [ok |-> FALSE, val |-> Error("truncate filter expects a string, but got " \o typeof(value))]
  ELSE IF Len(value.s) > length THEN [ok |-> TRUE, val |-> Str(SubSeq(value.s, 1, length))]
  ELSE [ok |-> TRUE, val |-> value]

\* truncate(value, length = 50), for a length that is a number
truncate(value, args) ==
  LET length == IF args = <<>> \/ args[1] = Undef THEN 50 ELSE args[1].n IN
  IF typeof(value) # "string" THEN [ok |-> FALSE, val |-> Error("truncate filter expects a string, but got " \o typeof(value))]
  ELSE IF Len(value.s) > length
    THEN [ok |-> TRUE, val |-> Str(SubSeq(value.s, 1, length) \o <<".", ".", ".">>)]
  ELSE [ok |-> TRUE, val |-> value]

\* filter(value, ...args) for the function that this.filters holds under name;
\* the inherited functions are called without a receiver
filter(name, value, args, gens, counter) ==
  CASE name = "cycle" -> cycle(args, gens, counter)
    [] name = "next" -> next(value, gens, counter)
    [] name = "uppercase" ->
         [ok |-> uppercase(value).ok, val |-> uppercase(value).val, gens |-> gens, counter |-> counter]
    [] name = "truncate" ->
         [ok |-> truncate(value, args).ok, val |-> truncate(value, args).val, gens |-> gens,
          counter |-> counter]
    [] name = "toString" -> Returned(Str(<<"[object Undefined]">>), gens, counter)
    [] name = "hasOwnProperty" -> Thrown("Cannot convert undefined or null to object", gens, counter)

\* one call of nodes.map((n) => this.evaluator.evaluateNode(n)): the call
\* runs until its first await, and its promise joins Me.kids
mapNode(nodes, frame) ==
  /\ acts' = Append([acts EXCEPT ![Top] = [Me EXCEPT !.j = @ + 1, !.kids = Append(@, Len(acts) + 1)]],
                    Activation("evaluateNode", nodes[Me.j + 1], Me.ev, Top, Me.j + 1, Me.call, NoArg,
                               frame))
  /\ run' = Append(run, Len(acts) + 1)
  /\ UNCHANGED <<mq, calls>>

\* `await Promise.all(promises)` for the promises of Me.kids; the running
\* activation goes on at pc
awaitAll(pc) ==
  LET settled == {x \in 1..Len(Me.kids) : acts[Me.kids[x]].st \in {"ok", "err"}}
      jobs == [x \in 1..Len(Me.kids) |-> [a |-> Top, k |-> x]] IN
  /\ acts' = [acts EXCEPT ![Top] = [Me EXCEPT !.pc = pc, !.st = "wait", !.n = Len(Me.kids),
                                              !.all = IF Me.kids = <<>> THEN "ok" ELSE "pending"]]
  /\ run' = Front(run)
  /\ mq' = IF Me.kids = <<>> THEN Append(mq, [a |-> Top, k |-> 0])
           ELSE mq \o SelectSeq(jobs, LAMBDA job : job.k \in settled)
  /\ calls' = calls

\* an application of a filter, or the refusal of an unknown one, as the log
\* keeps it
Application(name, known, value, args, result) ==
  [e |-> "filter", filter |-> name, known |-> known, value |-> value, args |-> args,
   ok |-> result.ok, result |-> result.val, act |-> Top, ev |-> Me.ev, call |-> Me.call]

\* evaluateFilter.  pc "value" follows the await of node.expression, "map" is
\* node.arguments.map(...), "args" what follows `await Promise.all(...)`.
evaluateFilter ==
  /\ Running("evaluateFilter")
  /\ LET node == Me.node
         name == text(node.filter)
         args == [x \in 1..Len(Me.kids) |-> acts[Me.kids[x]].val]
         result == filter(name, Me.cur, args, cycleGenerators, cycleCounter)
         Keep == UNCHANGED <<cycleGenerators, cycleCounter, log>> IN
     CASE Me.pc = "start" ->
            /\ Call([Me EXCEPT !.pc = "value"], NewAct("evaluateNode", node.expression, Me.ev, NoArg))
            /\ Keep
       [] Me.pc = "value" ->
            IF Kid.st = "err" THEN Settle("err", Kid.val) /\ Keep
            ELSE IF ~filters(name)
              THEN /\ Settle("err", Error("Unknown filter: " \o name))
                   /\ log' = Append(log, Application(name, FALSE, Kid.val, <<>>,
                                                     [ok |-> FALSE, val |-> Error("Unknown filter: " \o name)]))
                   /\ UNCHANGED <<cycleGenerators, cycleCounter>>
            ELSE Goto([Me EXCEPT !.pc = "map", !.cur = Kid.val, !.j = 0, !.kids = <<>>]) /\ Keep
       [] Me.pc = "map" ->
            /\ IF Me.j < Len(node.arguments) THEN mapNode(node.arguments, Me.frame)
               ELSE awaitAll("args")
            /\ Keep
       [] Me.pc = "args" ->
            IF Me.all = "err"
              THEN /\ Settle("err", Error("Error applying filter '" \o name \o "': " \o Me.tmp.msg))
                   /\ Keep
            ELSE /\ name \in Applied
                 /\ cycleGenerators' = result.gens
                 /\ cycleCounter' = result.counter
                 /\ log' = Append(log, Application(name, TRUE, Me.cur, args, result))
                 /\ IF result.ok THEN Settle("ok", result.val)
                    ELSE Settle("err", Error("Error applying filter '" \o name \o "': " \o result.val.msg))
  /\ UNCHANGED <<fs, heap, ste, rnd, evs, io, host>>

\* Object.entries(iterable) or the array itself: the items and their keys
entriesOf(h, iterable) ==
  IF iterable.k = "arr"
    THEN [items |-> iterable.a, keys |-> [x \in 1..Len(iterable.a) |-> Digits(x - 1)]]
    ELSE [items |-> [x \in 1..Len(h[iterable.id]) |-> h[iterable.id][x].value],
          keys |-> [x \in 1..Len(h[iterable.id]) |-> <<h[iterable.id][x].key>>]]

\* bodyResults.join("")
RECURSIVE joinResults(_)
joinResults(vals) ==
  IF vals = <<>> THEN <<>>
  ELSE (IF Head(vals) = Undef THEN <<>> ELSE JsToString(Head(vals))) \o joinResults(Tail(vals))

\* the three pops of the finally block
popFrame(e) ==
  [e EXCEPT !.contextStack = Front(@), !.indexStack = Front(@), !.keyStack = Front(@)]

\* the stacks of evaluator state e when the running evaluateEach starts or
\* settles, as the log keeps them
Stacks(at, e) ==
  [e |-> "each", at |-> at, act |-> Top, ev |-> Me.ev, call |-> Me.call,
   contextStack |-> e.contextStack, indexStack |-> e.indexStack, keyStack |-> e.keyStack]

\* evaluateEach.  pc "loop" is the head of the for loop; "map" is
\* node.body.map(...), which calls evaluateNode for one body node after the
\* other without awaiting, and ends in `await Promise.all(...)`; "joined"
\* is what follows that await.
evaluateEach ==
  /\ Running("evaluateEach")
  /\ LET node == Me.node
         Logs(at, e) == log' = Append(log, Stacks(at, e)) IN
     CASE Me.pc = "start" ->
            /\ Call([Me EXCEPT !.pc = "iter"], NewAct("evaluateNode", node.iterable, Me.ev, NoArg))
            /\ evs' = evs
            /\ Logs("start", EV)
       [] Me.pc = "iter" ->
            /\ IF Kid.st = "err" THEN Settle("err", Kid.val) /\ Logs("settle", EV)
               ELSE IF Kid.val.k \in {"arr", "ref"}
                 THEN Goto([Me EXCEPT !.pc = "loop", !.cur = entriesOf(heap, Kid.val)]) /\ log' = log
               ELSE Settle("err", Error("Cannot iterate over")) /\ Logs("settle", EV)
            /\ evs' = evs
       [] Me.pc = "loop" ->
            IF Me.i < Len(Me.cur.items)
              THEN /\ evs' = [evs EXCEPT ![Me.ev] =
                               [@ EXCEPT !.contextStack = Append(@, Me.cur.items[Me.i + 1]),
                                         !.indexStack = Append(@, Me.i),
                                         !.keyStack = Append(@, Me.cur.keys[Me.i + 1])]]
                   /\ Goto([Me EXCEPT !.pc = "map", !.j = 0, !.kids = <<>>])
                   /\ log' = log
              ELSE Settle("ok", Str(Me.acc)) /\ evs' = evs /\ Logs("settle", EV)
       [] Me.pc = "map" ->
            /\ IF Me.j < Len(node.body)
                 THEN /\ acts' = Append([acts EXCEPT ![Top] =
                                          [Me EXCEPT !.j = @ + 1, !.kids = Append(@, Len(acts) + 1)]],
                                        Activation("evaluateNode", node.body[Me.j + 1], Me.ev, Top,
                                                   Me.j + 1, Me.call, NoArg, Me.cur.items[Me.i + 1]))
                      /\ run' = Append(run, Len(acts) + 1)
                      /\ UNCHANGED <<mq, calls>>
                 ELSE LET settled == {x \in 1..Len(Me.kids) : acts[Me.kids[x]].st \in {"ok", "err"}}
                          jobs == [x \in 1..Len(Me.kids) |-> [a |-> Top, k |-> x]] IN
                      /\ acts' = [acts EXCEPT ![Top] =
                                   [Me EXCEPT !.pc = "joined", !.st = "wait", !.n = Len(Me.kids),
                                              !.all = IF Me.kids = <<>> THEN "ok" ELSE "pending"]]
                      /\ run' = Front(run)
                      /\ mq' = IF Me.kids = <<>> THEN Append(mq, [a |-> Top, k |-> 0])
                               ELSE mq \o SelectSeq(jobs, LAMBDA job : job.k \in settled)
                      /\ calls' = calls
            /\ evs' = evs
            /\ log' = log
       [] Me.pc = "joined" ->
            /\ evs' = [evs EXCEPT ![Me.ev] = popFrame(@)]
            /\ IF Me.all = "err" THEN Settle("err", Me.tmp) /\ Logs("settle", popFrame(EV))
               ELSE /\ log' = log
                    /\ Goto([Me EXCEPT !.pc = "loop", !.i = @ + 1, !.all = "none", !.kids = <<>>,
                                         !.acc = @ \o joinResults([x \in 1..Len(Me.kids) |->
                                                                    acts[Me.kids[x]].val])])
  /\ UNCHANGED <<fs, cycleGenerators, cycleCounter, heap, ste, rnd, io, host>>

\* the body evaluateConditional runs for branch j: 0 the #if or #not itself,
\* j > 0 the j-th alternate
\* a branchBody that takes the body of the #if whatever branch was chosen
branchBodyFirst(node, j) == node.body

branchBody(node, j) == IF j = 0 THEN node.body ELSE node.alternates[j].body

\* evaluateConditional.  pc "cond" follows the await of a condition, "alt" is
\* the head of the loop over node.alternates, "body" the loop over the
\* chosen body.
evaluateConditional ==
  /\ Running("evaluateConditional")
  /\ LET node == Me.node
         Cond(j, c) == Call([Me EXCEPT !.pc = "cond", !.j = j], NewAct("evaluateNode", c, Me.ev, NoArg))
         Body(j) == Goto([Me EXCEPT !.pc = "body", !.j = j, !.i = 0, !.acc = <<>>])
         Alt(j) == IF node.conditionType = "not" \/ j > Len(node.alternates)
                     THEN Settle("ok", EmptyStr)
                   ELSE IF node.alternates[j].conditionType = "else" THEN Body(j)
                   ELSE Cond(j, node.alternates[j].condition) IN
     CASE Me.pc = "start" ->
            IF node.conditionType \in {"not", "if"} THEN Cond(0, node.condition)
            ELSE Settle("ok", EmptyStr)
       [] Me.pc = "cond" ->
            IF Kid.st = "err" THEN Settle("err", Kid.val)
            ELSE IF Truthy(Kid.val) # (node.conditionType = "not") THEN Body(Me.j)
            ELSE Alt(Me.j + 1)
       [] Me.pc = "body" ->
            IF Me.i < Len(branchBody(node, Me.j))
              THEN Call([Me EXCEPT !.pc = "bodyGot"],
                        NewAct("evaluateNode", branchBody(node, Me.j)[Me.i + 1], Me.ev, NoArg))
              ELSE Settle("ok", Str(Me.acc))
       [] Me.pc = "bodyGot" ->
            IF Kid.st = "err" THEN Settle("err", Kid.val)
            ELSE Goto([Me EXCEPT !.pc = "body", !.i = @ + 1, !.acc = @ \o JsToString(Kid.val)])
  /\ UNCHANGED <<fs, cycleGenerators, cycleCounter, heap, ste, rnd, evs, io, host, log>>

\* a conversion that makes every property the same key
propertyKeySame(v) == "p"

\* the property key a value is converted to; the keys of the model are
\* single atoms
propertyKey(v) == IF Len(JsToString(v)) = 1 THEN JsToString(v)[1] ELSE "<composite>"

\* evaluateSet.  pc "value" follows the await of node.value, "chain" is the
\* head of the for loop over the property chain, "chainGot" its body after
\* the await, "final" what follows the await of the last property.  Me.cur
\* is `current`, Me.tmp is `value`.  Arrays as targets are not modelled.
evaluateSet ==
  /\ Running("evaluateSet")
  /\ LET node == Me.node
         name == node.name
         chain == node.propertyChain
         gd == EV.globalData IN
     CASE Me.pc = "start" ->
            /\ Call([Me EXCEPT !.pc = "value"], NewAct("evaluateNode", node.value, Me.ev, NoArg))
            /\ UNCHANGED <<heap, ste, rnd, log>>
       [] Me.pc = "value" ->
            IF Kid.st = "err" THEN Settle("err", Kid.val) /\ UNCHANGED <<heap, ste, rnd, log>>
            ELSE IF chain # <<>>
              THEN LET obj == resolveVariable(heap, currentContext, gd, name) IN
                   /\ obj.k # "arr"
                   /\ log' = Append(log, Lookup(name, obj))
                   /\ IF obj.k # "ref" THEN Settle("err", Error("Cannot extend non-object variable"))
                      ELSE Goto([Me EXCEPT !.pc = "chain", !.cur = obj, !.tmp = Kid.val, !.i = 0])
                   /\ UNCHANGED <<heap, ste, rnd>>
            ELSE IF startsWithHtml(name)
              THEN LET existingHtml == Has(ste.htmlVars, name[1])
                       marker == IF existingHtml THEN Get(ste.htmlVars, name[1]).marker
                                 ELSE Str(<<Markers[rnd + 1]>>) IN
                   /\ rnd' = IF existingHtml THEN rnd ELSE rnd + 1
                   /\ ste' = [ste EXCEPT !.htmlVars = MapSet(@, name[1], [marker |-> marker, value |-> Kid.val])]
                   /\ heap' = [heap EXCEPT ![gd] = MapSet(@, name[1], marker)]
                   /\ Settle("ok", EmptyStr)
                   /\ log' = log
            ELSE /\ heap' = [heap EXCEPT ![gd] = MapSet(@, propertyKey(Str(name)), Kid.val)]
                 /\ Settle("ok", EmptyStr)
                 /\ UNCHANGED <<ste, rnd, log>>
       [] Me.pc = "chain" ->
            /\ Call([Me EXCEPT !.pc = IF Me.i < Len(chain) - 1 THEN "chainGot" ELSE "final"],
                    NewAct("evaluateNode", chain[Me.i + 1].property, Me.ev, NoArg))
            /\ UNCHANGED <<heap, ste, rnd, log>>
       [] Me.pc = "chainGot" ->
            /\ IF Kid.st = "err" THEN Settle("err", Kid.val) /\ heap' = heap
               ELSE LET property == propertyKey(Kid.val)
                        current == heap[Me.cur.id] IN
                    IF ~Has(current, property)
                      THEN /\ heap' = Append([heap EXCEPT ![Me.cur.id] =
                                               MapSet(@, property, Ref(Len(heap) + 1))], <<>>)
                           /\ Goto([Me EXCEPT !.pc = "chain", !.i = @ + 1, !.cur = Ref(Len(heap) + 1)])
                    ELSE /\ Get(current, property).k # "arr"
                         /\ heap' = heap
                         /\ IF Get(current, property).k # "ref"
                              THEN Settle("err", Error("Cannot create nested property on non-object value"))
                              ELSE Goto([Me EXCEPT !.pc = "chain", !.i = @ + 1,
                                                   !.cur = Get(current, property)])
            /\ UNCHANGED <<ste, rnd, log>>
       [] Me.pc = "final" ->
            /\ IF Kid.st = "err" THEN Settle("err", Kid.val) /\ heap' = heap
               ELSE /\ heap' = [heap EXCEPT ![Me.cur.id] = MapSet(@, propertyKey(Kid.val), Me.tmp)]
                    /\ Settle("ok", EmptyStr)
            /\ UNCHANGED <<ste, rnd, log>>
  /\ UNCHANGED <<fs, cycleGenerators, cycleCounter, evs, io, host>>

\* evaluateInclude: includedData is a new object
evaluateInclude ==
  /\ Running("evaluateInclude")
  /\ CASE Me.pc = "start" ->
            /\ Call([Me EXCEPT !.pc = "path"], NewAct("evaluateNode", Me.node.path, Me.ev, NoArg))
            /\ heap' = heap
       [] Me.pc = "path" ->
            IF Kid.st = "err" THEN Settle("err", Kid.val) /\ heap' = heap
            ELSE IF Kid.val.k # "str"
              THEN Settle("err", Error("Include path must be a string")) /\ heap' = heap
            ELSE LET includedData == Spread(heap[EV.globalData],
                                            IF currentContext.k = "ref" THEN heap[currentContext.id]
                                            ELSE <<>>) IN
                 /\ heap' = Append(heap, includedData)
                 /\ Call([Me EXCEPT !.pc = "done"],
                         NewAct("renderStringWithoutRestore", Nil, Me.ev,
                                [NoArg EXCEPT !.filePath = Kid.val.s, !.data = Ref(Len(heap) + 1)]))
       [] Me.pc = "done" -> Settle(Kid.st, Kid.val) /\ heap' = heap
  /\ UNCHANGED <<fs, cycleGenerators, cycleCounter, ste, rnd, evs, io, host, log>>

(***************************************************************************)
(* The host: engines, files and render calls the program is run on.  A     *)
(* scenario is [kind, baseDir, fs, heap, calls, mode, exp]: the engine is  *)
(* `new STE(baseDir)`, the host calls render(filePath, data) for each of   *)
(* calls, one after the other has settled (mode "seq") or without waiting  *)
(* (mode "conc"); exp is what the documentation promises for the scenario. *)
(***************************************************************************)
MaxAlternates == 2

MaxItems == 2

KV(key, value) == [key |-> key, value |-> value]

RenderCall(filePath, data) == [filePath |-> filePath, data |-> data, st |-> "new", out |-> Undef]

Html(name) == <<name, ".", "html">>

InDir(dir, path) == <<dir, "/">> \o path

Here(path) == <<".", "/">> \o path

Up(path) == <<".", ".", "/">> \o path

\* a file below process.cwd(), with the tokens scanTokens makes of its text
File(path, tokens) ==
  [path |-> Cwd \o <<"/">> \o path, tokens |-> Append(tokens, Tok("EOF")), err |-> ""]

\* a file below process.cwd() given by its text
Source(path, source) ==
  [path |-> Cwd \o <<"/">> \o path, tokens |-> scanTokens(source).tokens,
   err |-> scanTokens(source).err]

Scenario(kind, baseDir, files, objects, renderCalls, mode, exp) ==
  [kind |-> kind, baseDir |-> baseDir, fs |-> files, heap |-> objects, calls |-> renderCalls,
   mode |-> mode, exp |-> exp]

\* n renders in sequence of views/t.html, the template given by its tokens,
\* each with heap[1] as data
Renders(n, kind, tokens, objects, exp) ==
  Scenario(kind, <<"views">>, <<File(InDir("views", Html("t")), tokens)>>, objects,
           [c \in 1..n |-> RenderCall(Html("t"), Ref(1))], "seq", exp)

\* the variables of an if-chain: branch j tests cond[j + 1] and renders
\* body[j + 1], whose value in the data is value[j + 1]
Names ==
  [cond |-> <<"c0", "c1", "c2", "c3", "c4">>,
   body |-> <<"v0", "v1", "v2", "v3", "v4", "v5">>,
   value |-> <<"V0", "V1", "V2", "V3", "V4", "V5">>]

\* the body of branch j: {{vj}}!
BranchTokens(j) == TVar(Names.body[j + 1]) \o <<Text(<<"!">>)>>

\* {{#if c0}}{{v0}}!{{#elseif c1}}{{v1}}!...{{#else}}{{v(n+1)}}!{{/if}}
IfChain(n, hasElse) ==
  TOpen("if", Names.cond[1]) \o BranchTokens(0)
    \o Flatten([j \in 1..n |-> TOpen("elseif", Names.cond[j + 1]) \o BranchTokens(j)])
    \o (IF hasElse THEN TElse \o BranchTokens(n + 1) ELSE <<>>) \o TClose("if")

CondValues == {Bool(TRUE), Bool(FALSE), Num(0)}

IfData(n, truth) ==
  [j \in 1..(n + 1) |-> KV(Names.cond[j], truth[j - 1])]
    \o [j \in 1..(n + 2) |-> KV(Names.body[j], Str(<<Names.value[j]>>))]

\* if-chains of at most MaxAlternates #elseif, with and without #else
ConditionalScenarios ==
  { Renders(1, "if", IfChain(n, hasElse), <<IfData(n, truth)>>,
              [n |-> n, hasElse |-> hasElse, truth |-> truth]) :
      <<n, hasElse, truth>> \in
        UNION { {<<n, e, t>> : e \in BOOLEAN, t \in [0..n -> CondValues]} : n \in 0..MaxAlternates } }
  \cup
  \* {{#not c0}}{{v0}}!{{/not}}
  { Renders(1, "not", TOpen("not", Names.cond[1]) \o BranchTokens(0) \o TClose("not"),
              <<IfData(0, [j \in {0} |-> c])>>, [truth |-> c]) : c \in CondValues }

IndexScenarios ==
  \* {{#each items}}{{@index}}{{/each}}
  { Renders(1, "index", TOpen("each", "items") \o TIndex \o TClose("each"),
              <<(<<KV("items", Arr(items))>>)>>, [n |-> Len(items), m |-> 0]) :
      items \in UNION { [1..n -> {Str(<<"x">>), Num(7)}] : n \in 0..MaxItems } }
  \cup
  \* {{#each a}}{{#each1 b}}{{@index}}{{/each1}}{{/each}}
  { Renders(1, "nested",
              TOpen("each", "a") \o TOpen("each1", "b") \o TIndex \o TClose("each1") \o TClose("each"),
              <<(<<KV("a", Arr([x \in 1..n |-> Str(<<"x">>)])),
                   KV("b", Arr([x \in 1..m |-> Num(7)]))>>)>>,
              [n |-> n, m |-> m]) : <<n, m>> \in (0..MaxItems) \X (0..MaxItems) }
  \cup
  \* {{#each a}}{{@index}}{{#each1 b}}{{@index}}{{/each1}}{{#each1 b}}{{@index}}{{/each1}}{{/each}}
  { Renders(1, "loops",
              TOpen("each", "a") \o TIndex \o TOpen("each1", "b") \o TIndex \o TClose("each1")
                \o TOpen("each1", "b") \o TIndex \o TClose("each1") \o TClose("each"),
              <<(<<KV("a", Arr([x \in 1..n |-> Str(<<"x">>)])),
                   KV("b", Arr([x \in 1..m |-> Num(7)]))>>)>>,
              [n |-> n, m |-> m]) : <<n, m>> \in (1..MaxItems) \X (1..MaxItems) }

\* rows of an object {a, b, subs: [{x, b}]} each; heap[1] is the data
RowsHeap(n) ==
  <<(<<KV("rows", Arr([x \in 1..n |-> Ref(2 * x)])), KV("b", Str(<<"global">>))>>)>>
    \o Flatten([x \in 1..n |->
         <<(<<KV("a", Str(<<"A">>)), KV("b", Str(<<"B">>)), KV("subs", Arr(<<Ref(2 * x + 1)>>))>>),
           (<<KV("x", Str(<<"X">>)), KV("b", Str(<<"inner">>))>>)>>])

OperandScenarios ==
  \* {{#each rows}}{{a + b}}{{/each}}
  { Renders(1, "operands", TOpen("each", "rows") \o TPlus("a", "b") \o TClose("each"),
              RowsHeap(n), [n |-> n]) : n \in 1..MaxItems }
  \cup
  \* {{#each rows}}{{#each1 subs}}{{x}}{{/each1}}{{a + b}}{{/each}}
  { Renders(1, "sibling",
              TOpen("each", "rows") \o TOpen("each1", "subs") \o TVar("x") \o TClose("each1")
                \o TPlus("a", "b") \o TClose("each"),
              RowsHeap(n), [n |-> n]) : n \in 1..MaxItems }

Markup == <<"<", "b", ">", "&">>

HtmlScenarios ==
  \* {{name}} with name a string of markup
  { Renders(1, "escape", TVar("name"), <<(<<KV("name", Str(Markup))>>)>>, [value |-> Markup]) }
  \cup
  \* {{html_x}} with html_x a string of markup
  { Renders(1, "trusted", TVar("html_x"), <<(<<KV("html_x", Str(Markup))>>)>>, [value |-> Markup]) }
  \cup
  \* {{#html_x}}, n times
  { Renders(1, "raw", Flatten([x \in 1..n |-> TRaw("html_x")]),
              <<(<<KV("html_x", Str(Markup))>>)>>, [n |-> n, value |-> Markup]) : n \in 1..MaxItems }
  \cup
  \* {{#html_x}}{{#include("part.html")}} where part.html is {{#html_y}}
  { Scenario("rawinc", <<"views">>,
             <<File(InDir("views", Html("t")), TRaw("html_x") \o TInclude(Html("part"))),
               File(InDir("views", Html("part")), TRaw("html_y"))>>,
             <<(<<KV("html_x", Str(Markup)), KV("html_y", Str(<<"<", "i", ">">>))>>)>>,
             <<RenderCall(Html("t"), Ref(1))>>, "seq", [value |-> Markup \o <<"<", "i", ">">>]) }

\* two renders of one template with the same object as data
TwiceScenarios ==
  { \* {{name}}
    Renders(2, "twice", TVar("name"), <<(<<KV("name", Str(<<"N">>))>>)>>, [n |-> 2]),
    \* {{x}}{{#set x = "1"}}
    Renders(2, "twice", TVar("x") \o TSet("x", <<>>, <<"1">>), <<(<<KV("name", Str(<<"N">>))>>)>>, [n |-> 2]),
    \* {{user.name}}{{#set user.name = "X"}}
    Renders(2, "twice", TProp("user", "name") \o TSet("user", <<"name">>, <<"X">>),
            <<(<<KV("user", Ref(2))>>), (<<KV("name", Str(<<"N">>))>>)>>, [n |-> 2]),
    \* {{html_y}}{{#set html_y = "<b>"}}
    Renders(2, "twice", TVar("html_y") \o TSet("html_y", <<>>, <<"<", "b", ">">>), <<(<<KV("name", Str(<<"N">>))>>)>>, [n |-> 2]) }

\* views/pages/index.html includes first, which includes second; the file
\* that second names, seen from the directory of first, says "right", the
\* other candidates say "wrong"
IncludeChain(first, second) ==
  Scenario("include", <<"views">>,
           <<File(InDir("views", InDir("pages", Html("index"))), TInclude(first)),
             File(InDir("views", InDir("pages", InDir("p", Html("x")))), TInclude(second)),
             File(InDir("views", InDir("partials", Html("x"))), TInclude(second)),
             File(InDir("views", InDir("pages", InDir("p", Html("y")))), <<Text(<<"pages/p">>)>>),
             File(InDir("views", InDir("partials", Html("y"))), <<Text(<<"partials">>)>>),
             File(InDir("views", InDir("pages", Html("y"))), <<Text(<<"pages">>)>>),
             File(InDir("views", InDir("p", Html("y"))), <<Text(<<"p">>)>>),
             File(InDir("views", Html("y")), <<Text(<<"views">>)>>)>>,
           <<(<<KV("name", Str(<<"N">>))>>)>>,
           <<RenderCall(InDir("pages", Html("index")), Ref(1))>>, "seq", [first |-> first, second |-> second])

IncludeScenarios ==
  { IncludeChain(first, second) :
      first \in {Here(InDir("p", Html("x"))), InDir("partials", Html("x")),
                 Up(InDir("partials", Html("x")))},
      second \in {Here(Html("y")), Up(Html("y"))} }

\* root mode: pages/index.html includes a path that climbs above the
\* project root /app
RootScenarios ==
  { Scenario("root", Here(<<>>),
             <<File(InDir("pages", Html("index")), TInclude(path)),
               File(InDir("etc", Html("x")), <<Text(<<"inside">>)>>),
               File(InDir("pages", Html("x")), <<Text(<<"sibling">>)>>)>>,
             <<(<<KV("name", Str(<<"N">>))>>)>>,
             <<RenderCall(InDir("pages", Html("index")), Ref(1))>>, "seq", [path |-> path]) :
      path \in {Here(Html("x")),
                Up(Up(InDir("etc", Html("x")))),
                Here(Up(Up(Up(InDir("etc", Html("x"))))))} }

\* two renders, of a/index.html and b/index.html; each template is
\* {{#include("./one.html")}}{{#include("./two.html")}}
ConcurrentScenarios ==
  LET TwoIncludes == TInclude(Here(Html("one"))) \o TInclude(Here(Html("two"))) IN
  { Scenario("concurrent", <<"views">>,
             <<File(InDir("views", InDir("a", Html("index"))), TwoIncludes),
               File(InDir("views", InDir("b", Html("index"))), TwoIncludes),
               File(InDir("views", InDir("a", Html("one"))), <<Text(<<"A1">>)>>),
               File(InDir("views", InDir("a", Html("two"))), <<Text(<<"A2">>)>>),
               File(InDir("views", InDir("b", Html("one"))), <<Text(<<"B1">>)>>),
               File(InDir("views", InDir("b", Html("two"))), <<Text(<<"B2">>)>>)>>,
             <<(<<KV("name", Str(<<"N">>))>>)>>,
             <<RenderCall(InDir("a", Html("index")), Ref(1)),
               RenderCall(InDir("b", Html("index")), Ref(1))>>, mode,
             [alone |-> <<Str(<<"A1", "A2">>), Str(<<"B1", "B2">>)>>]) : mode \in {"seq", "conc"} }

\* an each body with a #set, an #if, a #not or an #include in it
StatementTokens ==
  [set |-> TSet("x", <<>>, <<"1">>) \o TVar("x"),
   if |-> TOpen("if", "b") \o <<Text(<<"1">>)>> \o TClose("if"),
   not |-> TOpen("not", "zz") \o <<Text(<<"1">>)>> \o TClose("not"),
   include |-> TInclude(Html("part"))]

StatementScenarios ==
  { Scenario("eachstmt", <<"views">>,
             <<File(InDir("views", Html("t")),
                    TOpen("each", "rows") \o StatementTokens[stmt] \o TClose("each")),
               File(InDir("views", Html("part")), <<Text(<<"1">>)>>)>>,
             RowsHeap(n), <<RenderCall(Html("t"), Ref(1))>>, "seq", [n |-> n, stmt |-> stmt]) :
      n \in 1..MaxItems, stmt \in DOMAIN StatementTokens }
  \cup
  \* the same statements in a conditional body: {{#if rows}}...{{/if}}
  { Scenario("ifstmt", <<"views">>,
             <<File(InDir("views", Html("t")),
                    TOpen("if", "rows") \o StatementTokens[stmt] \o TClose("if")),
               File(InDir("views", Html("part")), <<Text(<<"1">>)>>)>>,
             RowsHeap(1), <<RenderCall(Html("t"), Ref(1))>>, "seq", [n |-> 1, stmt |-> stmt]) :
      stmt \in DOMAIN StatementTokens }

(***************************************************************************)
(* Templates given by their text                                           *)
(***************************************************************************)
\* {{ inner }}
Mustache(inner) == <<"{", "{">> \o inner \o <<"}", "}">>

\* n renders in sequence of views/t.html, the template given by its text,
\* each with heap[1] as data
RendersText(n, kind, source, objects, exp) ==
  Scenario(kind, <<"views">>, <<Source(InDir("views", Html("t")), source)>>, objects,
           [c \in 1..n |-> RenderCall(Html("t"), Ref(1))], "seq", exp)

\* expressions whose evaluation throws: an unknown filter, and a filter that
\* rejects its input (x is a number)
Throwing == {<<"x", " ", "|", " ", "nosuch">>, <<"x", "|", "uppercase">>}

\* conditionals whose condition throws:
\* {{#if <throwing>}}yes{{#else}}no{{/if}}!, {{#not <throwing>}}yes{{/not}}! and
\* {{#if f}}first{{#elseif <throwing>}}yes{{#else}}no{{/if}}!
ThrowingConditionScenarios ==
  { RendersText(1, "condthrow",
                Mustache(<<"#", "if", " ">> \o cond) \o <<"yes">> \o Mustache(<<"#", "else">>)
                  \o <<"no">> \o Mustache(<<"/", "if">>) \o <<"!">>,
                <<(<<KV("x", Num(1))>>)>>, [out |-> <<"no", "!">>]) : cond \in Throwing }
  \cup
  { RendersText(1, "condthrow",
                Mustache(<<"#", "not", " ">> \o cond) \o <<"yes">> \o Mustache(<<"/", "not">>) \o <<"!">>,
                <<(<<KV("x", Num(1))>>)>>, [out |-> <<"yes", "!">>]) : cond \in Throwing }
  \cup
  { RendersText(1, "condthrow",
                Mustache(<<"#", "if", " ", "f">>) \o <<"first">>
                  \o Mustache(<<"#", "elseif", " ">> \o cond) \o <<"yes">>
                  \o Mustache(<<"#", "else">>) \o <<"no">> \o Mustache(<<"/", "if">>) \o <<"!">>,
                <<(<<KV("x", Num(1)), KV("f", Bool(FALSE))>>)>>, [out |-> <<"no", "!">>]) :
      cond \in Throwing }

\* names that are not keys of builtInFilters: two that nothing defines, and
\* two that every object inherits
UnknownNames == {"nosuch", "upper", "toString", "hasOwnProperty"}

\* {{x | <name>(arg)}}! for a name outside the registry
UnknownFilterScenarios ==
  { RendersText(1, "unknown", Mustache(<<"x", " ", "|", " ", name, "(", "arg", ")">>) \o <<"!">>,
                <<(<<KV("x", Str(<<"a">>)), KV("arg", Num(1))>>)>>, [name |-> name]) :
      name \in UnknownNames }

\* | name and | name(n)
Pipe(name, args) ==
  <<" ", "|", " ", name>>
    \o (IF args = <<>> THEN <<>> ELSE <<"(">> \o Digits(args[1].n) \o <<")">>)

\* filter chains "a" | f | g, with the output documented for them
Chains ==
  { [a |-> <<"h", "e", "l", "l", "o">>, f |-> "uppercase", fargs |-> <<>>, g |-> "truncate",
     gargs |-> <<Num(3)>>, out |-> <<"H", "E", "L", ".", ".", ".">>],
    [a |-> <<"h", "e", "l", "l", "o">>, f |-> "truncate", fargs |-> <<Num(3)>>, g |-> "uppercase",
     gargs |-> <<>>, out |-> <<"H", "E", "L", ".", ".", ".">>],
    [a |-> <<"h", "i">>, f |-> "uppercase", fargs |-> <<>>, g |-> "truncate",
     gargs |-> <<Num(3)>>, out |-> <<"H", "I">>],
    [a |-> <<"h", "e", "l", "l", "o">>, f |-> "truncate", fargs |-> <<Num(1)>>, g |-> "truncate",
     gargs |-> <<Num(2)>>, out |-> <<"h", ".", ".", ".", ".">>] }

\* {{"a" | f | g}}
ChainScenarios ==
  { RendersText(1, "chain",
                Mustache(<<"\"">> \o ch.a \o <<"\"">> \o Pipe(ch.f, ch.fargs) \o Pipe(ch.g, ch.gargs)),
                <<(<<>>)>>, ch) : ch \in Chains }

\* the longest property chain of a #set
MaxChain == 3

Props == <<"a", "b", "c", "d", "e">>

\* user.a.b...: the first k properties after the name
ChainText(k) == <<"user">> \o Flatten([i \in 1..k |-> <<".", Props[i]>>])

\* {{#set user.a.b... = "X"}}{{user.a.b...}} on data in which user is an object
\* that has the first `have` objects of the chain already, or is not an object
\* at all (missing, a string, a number)
SetChainScenarios ==
  { RendersText(1, "setchain",
                Mustache(<<"#", "set", " ">> \o ChainText(k) \o <<" ", "=", " ", "\"", "X", "\"">>)
                  \o Mustache(ChainText(k)),
                [i \in 1..(have + 2) |->
                   IF i = 1 THEN <<KV("user", Ref(2))>>
                   ELSE IF i < have + 2 THEN <<KV(Props[i - 1], Ref(i + 1))>>
                   ELSE <<>>],
                [k |-> k, have |-> have, object |-> TRUE]) :
      k \in 1..MaxChain, have \in 0..(MaxChain - 1) }
  \cup
  { RendersText(1, "setchain",
                Mustache(<<"#", "set", " ">> \o ChainText(k) \o <<" ", "=", " ", "\"", "X", "\"">>)
                  \o Mustache(ChainText(k)),
                <<data>>, [k |-> k, have |-> 0, object |-> FALSE]) :
      k \in 1..MaxChain, data \in {<<>>, <<KV("user", Str(<<"s">>))>>, <<KV("user", Num(1))>>} }

\* {{#each obj}}{{@key}};{{/each}} over a mapping of n entries, keys a, b, ...
EachKeyScenarios ==
  { RendersText(1, "eachkey",
                Mustache(<<"#", "each", " ", "obj">>) \o Mustache(<<"@", "key">>) \o <<";">>
                  \o Mustache(<<"/", "each">>),
                <<(<<KV("obj", Ref(2))>>), [i \in 1..n |-> KV(Props[i], Num(i))]>>, [n |-> n]) :
      n \in 1..MaxItems }

\* {{#include("name.html")}}
IncludeText(name) == Mustache(<<"#", "include", "(", "\"">> \o Html(name) \o <<"\"", ")">>)

\* {{#set name = "1"}}
SetText(name) == Mustache(<<"#", "set", " ", name, " ", "=", " ", "\"", "1", "\"">>)

\* what follows {{#set y = "1"}}{{#include("part.html")}} in a template that
\* the tokenizer or the parser refuses: {{@}}, {{"x}}, an #if never
\* closed, and {{#set y = }}
Malformed ==
  { Mustache(<<"@">>), Mustache(<<"\"", "x">>), Mustache(<<"#", "if", " ", "y">>) \o <<"open">>,
    Mustache(<<"#", "set", " ", "y", " ", "=", " ">>) }

\* a render of the malformed template (depth 0), and of
\* A{{#set z = "1"}}{{#include("bad.html")}}B, which includes it (depth 1)
AbortScenarios ==
  { Scenario("abort", <<"views">>,
             <<Source(InDir("views", Html(IF depth = 0 THEN "t" ELSE "bad")),
                      SetText("y") \o IncludeText("part") \o bad),
               Source(InDir("views", Html(IF depth = 0 THEN "bad" ELSE "t")),
                      <<"A">> \o SetText("z") \o IncludeText("bad") \o <<"B">>),
               Source(InDir("views", Html("part")), <<"P">>)>>,
             <<(<<>>)>>, <<RenderCall(Html("t"), Ref(1))>>, "seq",
             [depth |-> depth,
              bad |-> Cwd \o <<"/">> \o InDir("views", Html(IF depth = 0 THEN "t" ELSE "bad"))]) :
      depth \in 0..1, bad \in Malformed }

\* the longest template of literal text
MaxText == 3

\* the characters of literal text: a letter, the braces, a blank, markup
TextAtoms == {"a", "{", "}", " ", "<"}

RECURSIVE Texts(_)
Texts(n) ==
  IF n = 0 THEN {<<>>}
  ELSE Texts(n - 1) \cup {Append(x, c) : x \in {y \in Texts(n - 1) : Len(y) = n - 1}, c \in TextAtoms}

\* text that contains no {{
LiteralScenarios ==
  { RendersText(1, "literal", literal, <<(<<>>)>>, [text |-> literal]) :
      literal \in {x \in Texts(MaxText) : \A i \in 1..(Len(x) - 1) : ~(x[i] = "{" /\ x[i + 1] = "{")} }

\* the most values of a generator, and the most applications of next to it
\* in one render
MaxValues == 2

MaxNext == 3

\* {{#set name = x | cycle("v1", ..., "vn")}}
CycleText(name, values) ==
  Mustache(<<"#", "set", " ", name, " ", "=", " ", "x", " ", "|", " ", "cycle", "(">>
             \o Flatten([i \in 1..Len(values) |->
                           (IF i > 1 THEN <<",", " ">> ELSE <<>>) \o <<"\"", values[i], "\"">>])
             \o <<")">>)

\* {{#set c = x | cycle("a", ...)}}{{#set d = x | cycle("z")}}, then m times
\* {{c | next}}{{d | next}}
RoundRobinText(n, m) ==
  CycleText("c", SubSeq(Props, 1, n)) \o CycleText("d", <<"z">>)
    \o Flatten([i \in 1..m |-> Mustache(<<"c", " ", "|", " ", "next">>)
                                 \o Mustache(<<"d", " ", "|", " ", "next">>)])

\* one render, and two renders in sequence and at once, of the round robin;
\* a render that applies next to the id of a generator of the render before;
\* and next on what no cycle returned: a string, an id not minted, a number
CycleScenarios ==
  { Scenario("cycle", <<"views">>, <<Source(InDir("views", Html("t")), RoundRobinText(n, m))>>,
             <<(<<>>)>>, [c \in 1..r.calls |-> RenderCall(Html("t"), Ref(1))], r.mode,
             [n |-> n, m |-> m, ok |-> TRUE]) :
      n \in 1..MaxValues, m \in 1..MaxNext,
      r \in {[calls |-> 1, mode |-> "seq"], [calls |-> 2, mode |-> "seq"], [calls |-> 2, mode |-> "conc"]} }
  \cup
  { Scenario("cycle", <<"views">>,
             <<Source(InDir("views", Html("t")), RoundRobinText(n, 1)),
               Source(InDir("views", Html("u")),
                      Mustache(<<"\"", "cycle_", "0", "\"", " ", "|", " ", "next">>))>>,
             <<(<<>>)>>, <<RenderCall(Html("t"), Ref(1)), RenderCall(Html("u"), Ref(1))>>, "seq",
             [n |-> n, m |-> 1, ok |-> TRUE]) : n \in 1..MaxValues }
  \cup
  { RendersText(1, "cycle", Mustache(id \o <<" ", "|", " ", "next">>), <<(<<KV("x", Num(5))>>)>>,
                [n |-> 0, m |-> 0, ok |-> FALSE]) :
      id \in {<<"\"", "nope", "\"">>, <<"\"", "cycle_", "0", "\"">>, <<"x">>} }

\* {{#each rows}}{{a}}{{b}}{{/each}} over one row, and {{x | cycle(a, b)}}: a
\* body and an argument list of two expressions
SiblingScenarios ==
  { RendersText(1, "siblings",
                Mustache(<<"#", "each", " ", "rows">>) \o Mustache(<<"a">>) \o Mustache(<<"b">>)
                  \o Mustache(<<"/", "each">>),
                <<(<<KV("rows", Arr(<<Ref(2)>>))>>), <<KV("a", Str(<<"A">>)), KV("b", Str(<<"B">>))>>>>,
                [form |-> "each"]),
    RendersText(1, "siblings", Mustache(<<"x", " ", "|", " ", "cycle", "(", "a", ",", " ", "b", ")">>),
                <<(<<KV("a", Str(<<"A">>)), KV("b", Str(<<"B">>))>>)>>, [form |-> "filter"]) }

\* an each body in which an expression throws while a nested each of the same
\* iteration has not finished:
\* {{#each rows}}{{#each1 subs}}{{x}}{{/each1}}{{<thrower>}}{{/each}},
\* with y | nosuch and y | uppercase | nosuch as <thrower>
ThrowingSiblingScenarios ==
  { Scenario("eachthrow", <<"views">>,
             <<Source(InDir("views", Html("t")),
                      Mustache(<<"#", "each", " ", "rows">>) \o Mustache(<<"#", "each", "1", " ", "subs">>)
                        \o Mustache(<<"x">>) \o Mustache(<<"/", "each", "1">>)
                        \o Mustache(thrower) \o Mustache(<<"/", "each">>))>>,
             <<(<<KV("rows", Arr([i \in 1..n |-> Ref(2)]))>>),
               <<KV("subs", Arr([i \in 1..m |-> Ref(3)])), KV("y", Str(<<"Y">>))>>,
               <<KV("x", Str(<<"X">>))>>>>,
             <<RenderCall(Html("t"), Ref(1))>>, "seq", [n |-> n, m |-> m]) :
      n \in 1..MaxItems, m \in 1..MaxItems,
      thrower \in {<<"y", " ", "|", " ", "nosuch">>,
                   <<"y", " ", "|", " ", "uppercase", " ", "|", " ", "nosuch">>} }

\* the divisions of the documentation, and one between longer names, each
\* rendered with every variable 6 and every divisor 2:
\* {{a/b}}, {{a / b}}, {{total / count}}, {{x / 2}}, {{total/count}}
Divisions ==
  { <<"a", "/", "b">>, <<"a", " ", "/", " ", "b">>, <<"total", " ", "/", " ", "count">>,
    <<"x", " ", "/", " ", "2">>, <<"total", "/", "count">> }

DivideScenarios ==
  { RendersText(1, "divide", Mustache(division),
                <<(<<KV("a", Num(6)), KV("b", Num(2)), KV("total", Num(6)), KV("count", Num(2)),
                     KV("x", Num(6))>>)>>, [out |-> <<"3">>]) : division \in Divisions }

\* the primaries a filter is written after, with the type of the node each
\* is parsed to: a number, a group, an array, an object, a string, an
\* identifier chain
Primaries ==
  { [e |-> <<"5">>, type |-> "literal"],
    [e |-> <<"(", "x", ")">>, type |-> "grouping"],
    [e |-> <<"[", "x", "]">>, type |-> "array"],
    [e |-> <<" ", "{", "a", ":", " ", "x", "}">>, type |-> "object"],
    [e |-> <<"\"", "s", "\"">>, type |-> "literal"],
    [e |-> <<"u", ".", "name">>, type |-> "property"] }

\* {{<primary> | uppercase}}
FilteredPrimaryScenarios ==
  { RendersText(1, "primary", Mustache(pr.e \o <<" ", "|", " ", "uppercase">>),
                <<(<<KV("x", Str(<<"a">>)), KV("u", Ref(2))>>), <<KV("name", Str(<<"n">>))>>>>,
                [type |-> pr.type]) : pr \in Primaries }

\* the string "a.b" in an interpolation, as a set value and before a filter,
\* with the output documented for each; the data has a property b of a
\* property a:
\* {{"a.b"}}, {{#set y = "a.b"}}{{y}}, {{"a.b" | uppercase}}
QuotedScenarios ==
  { RendersText(1, "quoted", q.source,
                <<(<<KV("a", Ref(2))>>), <<KV("b", Str(<<"leak">>))>>>>, [out |-> q.out]) :
      q \in { [source |-> Mustache(<<"\"", "a", ".", "b", "\"">>), out |-> <<"a", ".", "b">>],
              [source |-> Mustache(<<"#", "set", " ", "y", " ", "=", " ", "\"", "a", ".", "b", "\"">>)
                            \o Mustache(<<"y">>),
               out |-> <<"a", ".", "b">>],
              [source |-> Mustache(<<"\"", "a", ".", "b", "\"", " ", "|", " ", "uppercase">>),
               out |-> <<"A", ".", "B">>] } }

\* a closing tag that no opener precedes: {{/if}}, A{{/not}}B, {{/each}}
ClosingTagScenarios ==
  { RendersText(1, "closing", source, <<(<<>>)>>, [n |-> 0]) :
      source \in { Mustache(<<"/", "if">>), <<"A">> \o Mustache(<<"/", "not">>) \o <<"B">>,
                   Mustache(<<"/", "each">>) } }

\* object literals inside {{ }}, in a body that is not evaluated (x is
\* false), as the argument of a filter that is refused, and left open:
\* {{#if x}}{{ {a: {b: 1}} }}{{/if}}, {{#if x}}{{ {a: 1}}}{{/if}},
\* {{x | nosuch({a: 1})}}, {{ {a: 1 }}
ObjectTexts ==
  { Mustache(<<"#", "if", " ", "x">>)
      \o Mustache(<<" ", "{", "a", ":", " ", "{", "b", ":", " ", "1", "}", "}", " ">>)
      \o Mustache(<<"/", "if">>),
    Mustache(<<"#", "if", " ", "x">>) \o Mustache(<<" ", "{", "a", ":", " ", "1", "}">>)
      \o Mustache(<<"/", "if">>),
    Mustache(<<"x", " ", "|", " ", "nosuch", "(", "{", "a", ":", " ", "1", "}", ")">>),
    <<"{", "{", " ", "{", "a", ":", " ", "1", " ", "}", "}">> }

BraceScenarios ==
  { RendersText(1, "braces", source, <<(<<KV("x", Bool(FALSE))>>)>>, [source |-> source]) :
      source \in ObjectTexts }

\* the nodes of an expression over the variables a, b and c
Var(name) == [type |-> "variable", name |-> <<name>>]

Infix(type, op, left, right) == [type |-> type, operator |-> op, left |-> left, right |-> right]

Prefix(op, right) == [type |-> "unary", operator |-> op, right |-> right]

\* expressions of two operators, each with the tree the grammar gives it
Precedences ==
  { [e |-> <<"a", " ", "|", "|", " ", "b", " ", "&", "&", " ", "c">>,
     tree |-> Infix("logical", "AND", Infix("logical", "OR", Var("a"), Var("b")), Var("c"))],
    [e |-> <<"a", " ", "&", "&", " ", "b", " ", "|", "|", " ", "c">>,
     tree |-> Infix("logical", "OR", Infix("logical", "AND", Var("a"), Var("b")), Var("c"))],
    [e |-> <<"a", " ", "|", "|", " ", "b", " ", "=", "=", " ", "c">>,
     tree |-> Infix("logical", "OR", Var("a"), Infix("comparison", "EQUAL", Var("b"), Var("c")))],
    [e |-> <<"a", " ", "<", " ", "b", " ", "+", " ", "c">>,
     tree |-> Infix("comparison", "LESS", Var("a"), Infix("binary", "PLUS", Var("b"), Var("c")))],
    [e |-> <<"a", " ", "+", " ", "b", " ", "*", " ", "c">>,
     tree |-> Infix("binary", "PLUS", Var("a"), Infix("binary", "MULTIPLY", Var("b"), Var("c")))],
    [e |-> <<"a", " ", "-", " ", "b", " ", "-", " ", "c">>,
     tree |-> Infix("binary", "MINUS", Infix("binary", "MINUS", Var("a"), Var("b")), Var("c"))],
    [e |-> <<"a", " ", "*", " ", "b", " ", "*", "*", " ", "c">>,
     tree |-> Infix("binary", "POWER", Infix("binary", "MULTIPLY", Var("a"), Var("b")), Var("c"))],
    [e |-> <<"a", "/", "b", "*", "c">>,
     tree |-> Infix("binary", "MULTIPLY", Infix("binary", "DIVIDE", Var("a"), Var("b")), Var("c"))],
    [e |-> <<"a", " ", "%", " ", "b", " ", "+", " ", "c">>,
     tree |-> Infix("binary", "PLUS", Infix("binary", "MODULO", Var("a"), Var("b")), Var("c"))],
    [e |-> <<"!", "a", " ", "*", " ", "b">>,
     tree |-> Infix("binary", "MULTIPLY", Prefix("NOT", Var("a")), Var("b"))],
    [e |-> <<"-", "a", " ", "*", " ", "b">>,
     tree |-> Infix("binary", "MULTIPLY", Prefix("MINUS", Var("a")), Var("b"))] }

\* {{<e>}} for the expressions of + - * alone, with a = 6, b = 1, c = 2, and
\* {{#if x}}{{<e>}}{{/if}}, x false, for all of them
PrecedenceScenarios ==
  { RendersText(1, "precedence", Mustache(<<"#", "if", " ", "x">>) \o Mustache(pr.e) \o Mustache(<<"/", "if">>),
                <<(<<KV("x", Bool(FALSE)), KV("a", Num(6)), KV("b", Num(1)), KV("c", Num(2))>>)>>,
                [tree |-> pr.tree, plain |-> FALSE, out |-> <<>>]) : pr \in Precedences }
  \cup
  { RendersText(1, "precedence", Mustache(pr.e),
                <<(<<KV("x", Bool(FALSE)), KV("a", Num(6)), KV("b", Num(1)), KV("c", Num(2))>>)>>,
                [tree |-> pr.tree, plain |-> TRUE,
                 out |-> IF pr.tree.operator = "PLUS" THEN <<"8">> ELSE <<"3">>]) :
      pr \in {x \in Precedences : x.e \in {<<"a", " ", "+", " ", "b", " ", "*", " ", "c">>,
                                           <<"a", " ", "-", " ", "b", " ", "-", " ", "c">>}} }

\* new STE("views"); views/a/b/index.html is {{#include("x.html")}}, and it
\* is rendered as a/b/index.html, ./a/b/index.html, ../a/b/index.html and
\* a/../../a/b/index.html; there is an x.html in views/a, in views and,
\* outside the base directory, in /app/a and in /app
ClimbScenarios ==
  { Scenario("climb", <<"views">>,
             <<Source(InDir("views", InDir("a", InDir("b", Html("index")))), IncludeText("x")),
               Source(InDir("views", InDir("a", Html("x"))), <<"inside">>),
               Source(InDir("views", Html("x")), <<"inside">>),
               Source(InDir("a", Html("x")), <<"outside">>),
               Source(Html("x"), <<"outside">>)>>,
             <<(<<>>)>>, <<RenderCall(path, Ref(1))>>, "seq", [path |-> path]) :
      path \in { InDir("a", InDir("b", Html("index"))),
                 Here(InDir("a", InDir("b", Html("index")))),
                 Up(InDir("a", InDir("b", Html("index")))),
                 InDir("a", Up(Up(InDir("a", InDir("b", Html("index")))))) } }

\* the values of html_x in the data of a render
HtmlValues == {<<"<", "b", ">">>, <<"<", "i", ">">>}

\* {{html_x}}{{name}} rendered with {html_x: <value>, name: "N"}, on a fresh
\* engine (earlier = <<>>) and after a render of the same template with
\* another data object {html_x: <earlier value>, name: "M"}
EarlierScenarios ==
  { Scenario("earlier", <<"views">>,
             <<Source(InDir("views", Html("t")), Mustache(<<"html_x">>) \o Mustache(<<"name">>))>>,
             <<(<<KV("html_x", Str(value)), KV("name", Str(<<"N">>))>>)>>
               \o [i \in 1..Len(earlier) |-> <<KV("html_x", Str(earlier[i])), KV("name", Str(<<"M">>))>>],
             [i \in 1..Len(earlier) |-> RenderCall(Html("t"), Ref(1 + i))]
               \o <<RenderCall(Html("t"), Ref(1))>>,
             "seq", [fresh |-> value \o <<"N">>, earlier |-> Len(earlier)]) :
      value \in HtmlValues, earlier \in {<<>>} \cup {<<x>> : x \in HtmlValues} }

\* the most pieces of a template put together from pieces
MaxPieces == 3

\* the pieces: text, the tags of a conditional and of a loop, an
\* interpolation
Pieces ==
  { <<"A">>, Mustache(<<"#", "if", " ", "x">>), Mustache(<<"#", "else">>), Mustache(<<"/", "if">>),
    Mustache(<<"#", "each", " ", "r">>), Mustache(<<"/", "each">>), Mustache(<<"x">>) }

\* the templates of n pieces
RECURSIVE Assembled(_)
Assembled(n) == IF n = 0 THEN {<<>>} ELSE {x \o y : x \in Assembled(n - 1), y \in Pieces}

\* every template of 1 to MaxPieces pieces, well formed or not, rendered with
\* {x: "X", r: ["i"]}
AssembledScenarios ==
  UNION { { RendersText(1, "pieces", source, <<(<<KV("x", Str(<<"X">>)), KV("r", Arr(<<Str(<<"i">>)>>))>>)>>,
                        [n |-> n]) : source \in Assembled(n) } : n \in 1..MaxPieces }

\* pages/index.html is A{{#include("./x.html")}}B and pages/x.html is
\* X{{#include(inner)}}; inner is ./x.html or ./nosuch.html, which name no
\* file of views, or ./y.html, which names views/y.html
NestedIncludeScenarios ==
  { Scenario("reinclude", <<"views">>,
             <<File(InDir("views", InDir("pages", Html("index"))),
                    <<Text(<<"A">>)>> \o TInclude(Here(Html("x"))) \o <<Text(<<"B">>)>>),
               File(InDir("views", InDir("pages", Html("x"))),
                    <<Text(<<"X">>)>> \o TInclude(inner)),
               File(InDir("views", Html("y")), <<Text(<<"Y">>)>>)>>,
             <<(<<>>)>>, <<RenderCall(InDir("pages", Html("index")), Ref(1))>>, "seq",
             [inner |-> inner]) :
      inner \in {Here(Html("x")), Here(Html("nosuch")), Here(Html("y"))} }

Scenarios ==
  ConditionalScenarios \cup IndexScenarios \cup OperandScenarios \cup HtmlScenarios
    \cup TwiceScenarios \cup IncludeScenarios \cup RootScenarios \cup ConcurrentScenarios
    \cup StatementScenarios \cup ThrowingConditionScenarios \cup UnknownFilterScenarios \cup ChainScenarios \cup SetChainScenarios \cup EachKeyScenarios \cup AbortScenarios \cup LiteralScenarios \cup CycleScenarios \cup SiblingScenarios \cup ThrowingSiblingScenarios \cup DivideScenarios \cup FilteredPrimaryScenarios \cup QuotedScenarios \cup ClosingTagScenarios \cup BraceScenarios \cup PrecedenceScenarios \cup ClimbScenarios \cup EarlierScenarios \cup AssembledScenarios \cup NestedIncludeScenarios

Init ==
  \E s \in Scenarios :
    /\ fs = s.fs
    /\ heap = s.heap
    /\ ste = [baseDir |-> s.baseDir, isRootMode |-> s.baseDir = Here(<<>>), currentTemplate |-> Null,
              includeStack |-> <<>>, htmlVars |-> <<>>, pathUtils |-> FALSE,
              basePath |-> [set |-> FALSE, segs |-> <<>>]]
    /\ rnd = 0
    /\ evs = <<>>
    /\ acts = <<>>
    /\ run = <<>>
    /\ mq = <<>>
    /\ io = {}
    /\ calls = s.calls
    /\ host = [next |-> 1, mode |-> s.mode, kind |-> s.kind, exp |-> s.exp]
    /\ log = <<>>
    /\ cycleGenerators = <<>>
    /\ cycleCounter = 0

Next ==
  \/ StartRender
  \/ Await
  \/ Resume
  \/ ResolveElement
  \/ IOComplete
  \/ render
  \/ renderStringWithoutRestore
  \/ readFile
  \/ resolvePathAsync
  \/ initPathUtils
  \/ processExpressions
  \/ evaluate
  \/ evaluateNode
  \/ evaluateTemplate
  \/ evaluateExpression
  \/ evaluateVariable
  \/ evaluateRawHtml
  \/ evaluateProperty
  \/ evaluateBinary
  \/ evaluateFilter
  \/ evaluateEach
  \/ evaluateConditional
  \/ evaluateSet
  \/ evaluateInclude

Spec == Init /\ [][Next]_vars

\* every call of the host has settled
Done == \A c \in 1..Len(calls) : calls[c].st \in {"ok", "err"}

(***************************************************************************)
(* What the documentation promises, stated on the log and on the results   *)
(* of the host's calls                                                     *)
(***************************************************************************)
\* the events of one kind, in the order they happened
Logged(e) == SelectSeq(log, LAMBDA r : r.e = e)

LookupNames == [i \in 1..Len(Logged("lookup")) |-> Logged("lookup")[i].name]

\* the branch an if-chain has to take: the first in source order whose
\* condition is truthy, n + 1 for the else, -1 when there is none
FirstBranch(exp) ==
  LET truthy == {j \in 0..exp.n : Truthy(exp.truth[j])} IN
  IF truthy # {} THEN CHOOSE j \in truthy : \A x \in truthy : j <= x
  ELSE IF exp.hasElse THEN exp.n + 1 ELSE -1

\* the lookups an if-chain may make: its conditions up to the first truthy
\* one, then the variable of that branch's body
IfLookups(exp) ==
  LET k == FirstBranch(exp) IN
  [j \in 1..(IF k \in 0..exp.n THEN k + 1 ELSE exp.n + 1) |-> <<Names.cond[j]>>]
    \o (IF k = -1 THEN <<>> ELSE <<(<<Names.body[k + 1]>>)>>)

\* C1: an if-chain renders the body of the first branch whose condition is
\* truthy (else counting as truthy) and nothing when there is none; at no
\* moment has a condition after the first truthy one been evaluated, or the
\* body of another branch; #not renders its body iff its condition is falsy
C1_FirstTruthyBranch ==
  /\ host.kind = "if" =>
       /\ Len(LookupNames) <= Len(IfLookups(host.exp))
       /\ LookupNames = SubSeq(IfLookups(host.exp), 1, Len(LookupNames))
       /\ Done => /\ calls[1].st = "ok"
                  /\ calls[1].out = LET k == FirstBranch(host.exp) IN
                                     Str(IF k = -1 THEN <<>> ELSE <<Names.value[k + 1], "!">>)
                  /\ LookupNames = IfLookups(host.exp)
  /\ (host.kind = "not" /\ Done) =>
       /\ calls[1].st = "ok"
       /\ calls[1].out = IF Truthy(host.exp.truth) THEN EmptyStr ELSE Str(<<Names.value[1], "!">>)

\* an if-chain whose #if is falsy and whose first #elseif is truthy has rendered
C1_Witness ==
  /\ host.kind = "if" /\ Done
  /\ host.exp.n >= 2 /\ FirstBranch(host.exp) = 1 /\ Truthy(host.exp.truth[2])
  /\ calls[1].out = Str(<<"V1", "!">>)

\* "0" "1" ... "n-1"
Indices(n) == Flatten([i \in 1..n |-> Digits(i - 1)])

\* C2: {{@index}} renders the 0-based position of the iteration of the
\* innermost enclosing each: 0..N-1 for an array of N items whatever they
\* are, and the index of a nested each1 restarts at 0 in every outer iteration
C2_IndexOfInnermostLoop ==
  Done =>
    /\ host.kind = "index" =>
         calls[1].st = "ok" /\ calls[1].out = Str(Indices(host.exp.n))
    /\ host.kind = "nested" =>
         calls[1].st = "ok" /\ calls[1].out = Str(Flatten([i \in 1..host.exp.n |-> Indices(host.exp.m)]))
    /\ host.kind = "loops" =>
         /\ calls[1].st = "ok"
         /\ calls[1].out = Str(Flatten([i \in 1..host.exp.n |->
                                 Digits(i - 1) \o Indices(host.exp.m) \o Indices(host.exp.m)]))

\* two outer iterations of two inner iterations each have rendered
C2_Witness ==
  /\ host.kind = "nested" /\ Done
  /\ host.exp.n >= 2 /\ host.exp.m >= 2
  /\ calls[1].out = Str(Flatten([i \in 1..host.exp.n |-> Indices(host.exp.m)]))

\* C3: every variable lookup made for an expression in an each body finds
\* on top of contextStack the current item of the innermost each enclosing
\* that expression, also for a right operand and with a nested each as sibling
C3_LookupAgainstOwnItem ==
  \A i \in 1..Len(Logged("lookup")) : Logged("lookup")[i].top = Logged("lookup")[i].frame

\* C4: what {{ expr }} contributes to the output is HTML-escaped when the
\* value does not come from an html_ variable
C4_InterpolationEscaped ==
  (host.kind = "escape" /\ Done) =>
    calls[1].st = "ok" /\ calls[1].out = Str(escapeHtml(host.exp.value))

\* C5: the output a top-level render returns contains no raw-HTML marker
C5_NoMarkerInOutput ==
  \A c \in 1..Len(calls) :
    calls[c].st = "ok" => \A i \in 1..Len(calls[c].out.s) : ~isMarker(calls[c].out.s[i])

\* C6: two renders of one template in sequence, with the same data object,
\* return the same output
C6_RenderIdempotent ==
  (host.kind = "twice" /\ Done) =>
    calls[1].st = calls[2].st /\ calls[1].out = calls[2].out

\* where a relative include written in the template at `from` points
Target(from, filePath) == join(dirname(from), filePath)

\* C7: in root mode a relative include that designates a location outside
\* the project root fails with "Cannot include files outside of project
\* root", and the render is aborted with that error
C7_TraversalRejected ==
  host.kind = "root" =>
    \A i \in 1..Len(Logged("resolve")) :
      LET r == Logged("resolve")[i] IN
      (r.from # <<>> /\ isRelative(r.filePath) /\ ~startsWith(Target(r.from, r.filePath), Cwd)) =>
        /\ ~r.ok
        /\ Done => calls[r.call].st = "err"
                   /\ calls[r.call].out = Error("Cannot include files outside of project root")

\* C8: within one render a ./ or ../ include is resolved against the
\* directory of the template file that contains it, at every include depth
C8_RelativeToIncludingFile ==
  host.kind = "include" =>
    \A i \in 1..Len(Logged("resolve")) :
      LET r == Logged("resolve")[i] IN
      (r.from # <<>> /\ isRelative(r.filePath)) => r.path = Target(r.from, r.filePath)

\* C9: two concurrent top-level renders on one engine each return what
\* they return alone, and no relative include of one call is resolved
\* against an include-stack entry of the other
C9_ConcurrentRendersIsolated ==
  host.kind = "concurrent" =>
    /\ \A i \in 1..Len(Logged("resolve")) :
         (Logged("resolve")[i].from # <<>> /\ isRelative(Logged("resolve")[i].filePath)) =>
           Logged("resolve")[i].owner = Logged("resolve")[i].call
    /\ Done => \A c \in 1..Len(calls) :
                 calls[c].st = "ok" /\ calls[c].out = host.exp.alone[c]

\* C10: a #set, an #if / #not block or an #include inside an each body is
\* parsed into its node and evaluated once per iteration
C10_StatementsInEachBody ==
  host.kind = "eachstmt" =>
    /\ \A i \in 1..Len(Logged("parse")) : Logged("parse")[i].ok
    /\ Done => calls[1].st = "ok" /\ calls[1].out = Str([i \in 1..host.exp.n |-> "1"])

\* the applications of filters made so far
Applications == Logged("filter")

\* C11: a render of a conditional whose condition throws goes on as if the
\* condition were false: it does not reject, and what it returns is the
\* output of the branch taken for a false condition
C11_ThrowingConditionIsFalse ==
  host.kind = "condthrow" =>
    \A c \in 1..Len(calls) :
      /\ calls[c].st # "err"
      /\ calls[c].st = "ok" => calls[c].out = Str(host.exp.out)

\* C12: a filter whose name is not a key of builtInFilters is refused with
\* `Unknown filter: <name>`: no function is invoked for it, its argument arg
\* is never looked up, and the render rejects
C12_UnknownFilterThrows ==
  host.kind = "unknown" =>
    /\ \A i \in 1..Len(Applications) :
         Applications[i].filter \notin builtInFilters =>
           /\ ~Applications[i].known
           /\ Applications[i].result = Error("Unknown filter: " \o Applications[i].filter)
    /\ \A i \in 1..Len(LookupNames) : LookupNames[i] # <<"arg">>
    /\ Done => calls[1].st = "err"

\* C13: in a chain a | f | g the first filter applied is f, to a; the second
\* is g, to the result of f and with g's own arguments; and the render
\* returns what g returned: {{"hello" | uppercase | truncate(3)}} gives HEL...
C13_FilterChainInsideOut ==
  host.kind = "chain" =>
    /\ Len(Applications) <= 2
    /\ Len(Applications) >= 1 =>
         /\ Applications[1].filter = host.exp.f
         /\ Applications[1].value = Str(host.exp.a)
         /\ Applications[1].args = host.exp.fargs
    /\ Len(Applications) = 2 =>
         /\ Applications[2].filter = host.exp.g
         /\ Applications[2].value = Applications[1].result
         /\ Applications[2].args = host.exp.gargs
    /\ Done =>
         /\ Len(Applications) = 2
         /\ calls[1].st = "ok"
         /\ calls[1].out = Applications[2].result
         /\ calls[1].out = Str(host.exp.out)

\* {{"hello" | uppercase | truncate(3)}} has rendered HEL...
C13_Witness ==
  /\ host.kind = "chain" /\ Done
  /\ host.exp.a = <<"h", "e", "l", "l", "o">> /\ host.exp.f = "uppercase"
  /\ calls[1].out = Str(<<"H", "E", "L", ".", ".", ".">>)

\* obj.p1. ... .pk in heap h, Undef where a segment is missing
RECURSIVE At(_, _, _)
At(h, obj, chain) ==
  IF chain = <<>> THEN obj
  ELSE IF obj.k # "ref" THEN Undef
  ELSE At(h, Get(h[obj.id], Head(chain)), Tail(chain))

C15_KeyOfCurrentEntry ==
  host.kind = "eachkey" /\ Done =>
    /\ calls[1].st = "ok"
    /\ calls[1].out = Str(Flatten([i \in 1..host.exp.n |-> <<Props[i], ";">>]))

\* C16: a render call in which some evaluation has thrown never returns
\* output; and for a template that does not tokenize or parse, whether it is
\* rendered or included, no evaluator is made (its #set y never takes effect,
\* its include of part.html is never resolved) and the render call rejects
C16_FailureAbortsRender ==
  /\ \A a \in 1..Len(acts) : acts[a].st = "err" => calls[acts[a].call].st # "ok"
  /\ \A i \in 1..Len(Logged("parse")) :
       ~Logged("parse")[i].ok => \A e \in 1..Len(evs) : evs[e].loc # Logged("parse")[i].loc
  /\ host.kind = "abort" =>
       /\ \A e \in 1..Len(evs) : evs[e].loc # host.exp.bad
       /\ \A o \in 1..Len(heap) : ~Has(heap[o], "y")
       /\ \A i \in 1..Len(Logged("resolve")) : Logged("resolve")[i].filePath # Html("part")
       /\ Done => calls[1].st = "err"

\* the included template did not parse: the render has rejected, after the
\* including template had evaluated its #set z
C16_Witness ==
  /\ host.kind = "abort" /\ Done /\ host.exp.depth = 1
  /\ calls[1].st = "err"
  /\ \E i \in 1..Len(Logged("parse")) : ~Logged("parse")[i].ok /\ Logged("parse")[i].loc = host.exp.bad
  /\ \E o \in 1..Len(heap) : Has(heap[o], "z")

\* C17: a template of literal text without {{ is scanned as one STRING token
\* and EOF (EOF alone when it is empty), and its render returns the text
\* itself
C17_LiteralRoundTrip ==
  host.kind = "literal" =>
    /\ fs[1].err = ""
    /\ fs[1].tokens = IF host.exp.text = <<>> THEN <<Tok("EOF")>>
                      ELSE <<Text(host.exp.text), Tok("EOF")>>
    /\ Done => calls[1].st = "ok" /\ calls[1].out = Str(host.exp.text)

\* a text with single braces has been rendered
C17_Witness ==
  /\ host.kind = "literal" /\ Done
  /\ Len(host.exp.text) >= 3 /\ host.exp.text[1] = "}" /\ host.exp.text[3] = "{"
  /\ calls[1].out = Str(host.exp.text)

\* the applications of cycle, before the i-th application, that returned id
Creators(id, i) ==
  {j \in 1..(i - 1) : /\ Applications[j].filter = "cycle" /\ Applications[j].ok
                      /\ Applications[j].result = id}

\* how many of the first i applications apply next to id
NextsOn(id, i) ==
  Cardinality({j \in 1..i : Applications[j].filter = "next" /\ Applications[j].value = id})

\* C18: the k-th application of next to the id that cycle(v1, ..., vn)
\* returned yields v_(((k-1) mod n)+1), whatever was applied in between, in
\* this render or another; next on a value that no cycle returned throws
C18_RoundRobin ==
  /\ \A i \in 1..Len(Applications) :
       Applications[i].filter = "next" =>
         IF Creators(Applications[i].value, i) # {}
           THEN \A j \in Creators(Applications[i].value, i) :
                  /\ Applications[i].ok
                  /\ Applications[i].result =
                       Applications[j].args[((NextsOn(Applications[i].value, i) - 1)
                                               % Len(Applications[j].args)) + 1]
           ELSE ~Applications[i].ok
  /\ host.kind = "cycle" /\ Done => \A c \in 1..Len(calls) : (calls[c].st = "ok") = host.exp.ok

\* a generator of two values has returned its first value again at the third
\* next, with applications of next to another generator in between
C18_Witness ==
  /\ host.kind = "cycle" /\ Done
  /\ \E i \in 1..Len(Applications) :
       /\ Applications[i].filter = "next" /\ Applications[i].ok
       /\ NextsOn(Applications[i].value, i) = 3
       /\ Applications[i].result = Str(<<"a">>)
       /\ \E j \in Creators(Applications[i].value, i) : Len(Applications[j].args) = 2
       /\ \E j \in 1..(i - 1) : /\ Applications[j].filter = "next"
                                /\ Applications[j].value # Applications[i].value

\* C19: of the nodes that an each body or a filter's argument list hands to
\* Promise.all, one is not started before the one before it has completed
C19_SiblingsSequential ==
  \A p \in 1..Len(acts) :
    \A y \in 2..Len(acts[p].kids) : acts[acts[p].kids[y - 1]].st \in {"ok", "err"}

\* C20: when an evaluation of an each node settles, the three stacks are what
\* they were when it started
C20_StacksRestored ==
  \A i \in 1..Len(Logged("each")) :
    Logged("each")[i].at = "settle" =>
      \A j \in 1..(i - 1) :
        Logged("each")[j].at = "start" /\ Logged("each")[j].act = Logged("each")[i].act =>
          /\ Logged("each")[i].contextStack = Logged("each")[j].contextStack
          /\ Logged("each")[i].indexStack = Logged("each")[j].indexStack
          /\ Logged("each")[i].keyStack = Logged("each")[j].keyStack

\* the types of the tokens of file i
TokenTypes(i) == {fs[i].tokens[x].type : x \in 1..Len(fs[i].tokens)}

\* C21: a / that is not followed by if, not or each is tokenized as DIVIDE,
\* whatever the operands and the spacing, and the scan raises no error
C21_SlashDivides ==
  host.kind = "divide" =>
    /\ fs[1].err = ""
    /\ "DIVIDE" \in TokenTypes(1)
    /\ TokenTypes(1) \cap {"TAG_CONDITIONAL_CLOSE", "TAG_EACH_CLOSE"} = {}

\* C22: {{ e | f }} is parsed to a filter node around e whatever primary e
\* is: a number, a group, an array or an object as well as a string or an
\* identifier chain
C22_FilterAfterAnyPrimary ==
  host.kind = "primary" =>
    /\ parse(fs[1].tokens).ok
    /\ Len(parse(fs[1].tokens).node.body) = 1
    /\ parse(fs[1].tokens).node.body[1].type = "expression"
    /\ parse(fs[1].tokens).node.body[1].expression.type = "filter"
    /\ parse(fs[1].tokens).node.body[1].expression.expression.type = host.exp.type

\* C23: a quoted string evaluates to the characters between its quotes and is
\* never looked up as a variable: the render returns them, and no lookup of a
\* name with a dot is made
C23_QuotedStringIsLiteral ==
  host.kind = "quoted" =>
    /\ \A i \in 1..Len(Logged("lookup")) :
         \A x \in 1..Len(Logged("lookup")[i].name) : Logged("lookup")[i].name[x] # "."
    /\ Done => calls[1].st = "ok" /\ calls[1].out = Str(host.exp.out)

\* the node types Evaluator.evaluateNode has a case for
Dispatched ==
  {"template", "expression", "literal", "variable", "raw_html", "grouping", "array", "object",
   "property", "computed_property", "filter", "set", "each", "index_ref", "this_ref", "include",
   "conditional", "unary", "binary", "logical", "comparison", "ternary"}

\* every entry of a body, and of the bodies nested in it, is a node of a type
\* that evaluateNode dispatches on
RECURSIVE Complete(_)
Complete(body) ==
  \A i \in 1..Len(body) :
    /\ body[i].type \in Dispatched
    /\ body[i].type \in {"each", "conditional"} => Complete(body[i].body)
    /\ "alternates" \in DOMAIN body[i] =>
         \A j \in 1..Len(body[i].alternates) : Complete(body[i].alternates[j].body)

\* C24: whenever parse returns a template for the tokens of a file, every
\* entry of its body, recursively, is a complete node; a closing tag without
\* an opener is a syntax error, never an empty entry
C24_NodesComplete ==
  \A f \in 1..Len(fs) :
    fs[f].err = "" /\ parse(fs[f].tokens).ok => Complete(parse(fs[f].tokens).node.body)

\* the states of a scan: the TokenizerState before every iteration of the
\* loop of scanTokens, and after the last
RECURSIVE scanStates(_)
scanStates(t) ==
  IF t.err # "" \/ t.current > Len(t.source) THEN <<t>> ELSE <<t>> \o scanStates(scanStep(t))

\* the number of tokens of a type emitted so far
Emitted(t, type) == Cardinality({i \in 1..Len(t.tokens) : t.tokens[i].type = type})

\* C25: all along a scan braceCount is the number of LBRACE tokens emitted less
\* the number of RBRACE tokens emitted and is not negative, and a }} token is
\* emitted, and expression mode left, only with braceCount 0
C25_BraceCountBalanced ==
  host.kind = "braces" =>
    \A i \in 1..Len(scanStates(TokenizerState(host.exp.source))) :
      /\ scanStates(TokenizerState(host.exp.source))[i].braceCount >= 0
      /\ scanStates(TokenizerState(host.exp.source))[i].braceCount
           = Emitted(scanStates(TokenizerState(host.exp.source))[i], "LBRACE")
               - Emitted(scanStates(TokenizerState(host.exp.source))[i], "RBRACE")
      /\ (\/ ~scanStates(TokenizerState(host.exp.source))[i].isInExpression
          \/ (i > 1 /\ Emitted(scanStates(TokenizerState(host.exp.source))[i], "DOUBLE_BRACE_CLOSE")
                        > Emitted(scanStates(TokenizerState(host.exp.source))[i - 1], "DOUBLE_BRACE_CLOSE")))
           => scanStates(TokenizerState(host.exp.source))[i].braceCount = 0

\* the render of {{#if x}}{{ {a: {b: 1}} }}{{/if}} has returned: the scan went
\* through braceCount 2, and the two } of the objects are RBRACE tokens
C25_Witness ==
  /\ host.kind = "braces"
  /\ Done
  /\ calls[1].st = "ok"
  /\ \E i \in 1..Len(scanStates(TokenizerState(host.exp.source))) :
       scanStates(TokenizerState(host.exp.source))[i].braceCount = 2
  /\ Cardinality({i \in 1..Len(fs[1].tokens) : fs[1].tokens[i].type = "RBRACE"}) = 2

\* the expression of the interpolation of a template of kind precedence
Parsed ==
  IF host.exp.plain THEN parse(fs[1].tokens).node.body[1].expression
  ELSE parse(fs[1].tokens).node.body[1].body[1].expression

\* C26: && and || are one left-associative level, looser than the
\* comparisons, which are looser than + -, which are looser than * / % **
\* (one left-associative level), which are looser than unary ! and -
C26_Precedence ==
  host.kind = "precedence" =>
    /\ fs[1].err = ""
    /\ parse(fs[1].tokens).ok
    /\ Parsed = host.exp.tree
    /\ Done => calls[1].st = "ok" /\ calls[1].out = Str(host.exp.out)

\* the render of {{#if x}}{{a || b && c}}{{/if}} has returned, and so has the
\* render of {{a + b * c}}
C26_Witness ==
  /\ host.kind = "precedence"
  /\ Done
  /\ \/ host.exp.tree = Infix("logical", "AND", Infix("logical", "OR", Var("a"), Var("b")), Var("c"))
     \/ host.exp.plain /\ calls[1].out = Str(<<"8">>)

\* the engine's absolute base directory
AbsoluteBaseDir == normalize(resolve(ste.baseDir))

\* C27: every path a template or include path is resolved to, and so every
\* file that is read, lies inside the engine's absolute base directory
C27_InsideBaseDir ==
  \A i \in 1..Len(Logged("resolve")) :
    Logged("resolve")[i].ok =>
      startsWith(Logged("resolve")[i].path,
                 IF AbsoluteBaseDir = <<"/">> THEN AbsoluteBaseDir ELSE AbsoluteBaseDir \o <<"/">>)

\* C28: what render(T, D) returns on an engine that has rendered before, with
\* other data, is what it returns on a fresh engine
C28_IndependentOfEarlierRenders ==
  host.kind = "earlier" /\ Done =>
    /\ calls[Len(calls)].st = "ok"
    /\ calls[Len(calls)].out = Str(host.exp.fresh)

\* C29: parse terminates on the tokens of every file: no loop of the parser
\* is left on a token that none of its branches consumes, the token after a
\* }} being a STRING, a {{ or EOF
C29_ParseTerminates ==
  \A f \in 1..Len(fs) :
    fs[f].err = "" =>
      /\ parse(fs[f].tokens).err # "<no progress>"
      /\ fs[f].tokens[Len(fs[f].tokens)].type = "EOF"
      /\ \A i \in 1..(Len(fs[f].tokens) - 1) :
           fs[f].tokens[i].type = "DOUBLE_BRACE_CLOSE" =>
             fs[f].tokens[i + 1].type \in {"STRING", "DOUBLE_BRACE_OPEN", "EOF"}

\* the render of {{#if x}}{{#else}}{{/if}} has returned: the body loop and
\* the alternates loop of the parser have run
C29_Witness ==
  /\ host.kind = "pieces"
  /\ Done
  /\ calls[1].st = "ok"
  /\ parse(fs[1].tokens).ok
  /\ Len(parse(fs[1].tokens).node.body) = 1
  /\ parse(fs[1].tokens).node.body[1].type = "conditional"
  /\ Len(parse(fs[1].tokens).node.body[1].alternates) = 1

\* the calls of renderStringWithoutRestore that have pushed their path and
\* have not returned or thrown yet: the templates being rendered
Rendering ==
  { a \in 1..Len(acts) : /\ acts[a].fn = "renderStringWithoutRestore"
                         /\ acts[a].pc = "processed"
                         /\ acts[a].st \notin {"ok", "err"} }

\* C30: while a render runs alone on its engine the include stack holds one
\* entry for each template being rendered, and once the render has settled,
\* with a result or with an error, the stack is empty
C30_IncludeStackBalanced ==
  Len(calls) = 1 =>
    /\ Len(ste.includeStack) = Cardinality(Rendering)
    /\ calls[1].st \in {"ok", "err"} => ste.includeStack = <<>>

====
